---------------------------- MODULE Spec2Model ----------------------------
(***************************************************************************)
(* A model of hyperflut, a Pixelflut client: the hex serializer of a       *)
(* color (color.rs), the partition of the draw region among the painters   *)
(* (canvas.rs), the painter thread with its supervisor loop, its frame     *)
(* inbox and its transport (canvas.rs, painter.rs, client.rs), and the     *)
(* frame sources that feed it (image_manager.rs, gst.rs).                  *)
(*                                                                         *)
(* The module holds several specifications over one set of variables:      *)
(*   SpecHex     a thread calling Color::write_hex again and again          *)
(*   SpecSlices  Canvas::spawn_painters for a draw size and painter count  *)
(*   SpecTcp     a TextTcpClient under any sequence of transport calls     *)
(*   SpecIcmp    Icmp values and a Pingv6Client sending pixels             *)
(*   SpecPx      a thread formatting PX lines with write_pixel_noformat    *)
(*   SpecStart   start, from the SIZE negotiation to the draw size          *)
(*   SpecCanvas  a Canvas with several painter threads and update_image     *)
(*   SpecCoord   the coordinates a painter computes for send_pixel          *)
(*   Spec             one painter thread, its inbox and the frame source   *)
(*   PainterFairSpec  Spec with the painter thread scheduled fairly        *)
(*   FairSpec         PainterFairSpec with the frame source running too    *)
(* Each specification leaves the variables of the others untouched;        *)
(* SpecPx shares STRING_BUFFER, the scratch string of write_hex.           *)
(***************************************************************************)
EXTENDS Integers, Sequences, FiniteSets, TLC

VARIABLES
    \* ---- SpecHex: color.rs
    STRING_BUFFER,   \* the thread-local scratch string of write_hex
    hexSink,         \* the caller's string after the last write_hex call
    hexBefore,       \* the caller's string before that call
    hexColor,        \* the color of that call (NoColor before the first)
    \* ---- SpecSlices: canvas.rs, Canvas::new / spawn_painters
    size,            \* Canvas.size, (W, H)
    painter_count,   \* Canvas.painter_count
    painter_handles, \* the areas of the painters spawned so far, in order
    spawn_i,         \* the loop variable i of spawn_painters
    \* ---- Spec: one painter thread (canvas.rs, painter.rs), its transport
    \*      (client.rs) and the frame source (image_manager.rs, gst.rs)
    cfg,             \* what Canvas::new was given (fixed after start-up)
    pc,              \* where the painter thread is
    client,          \* Painter.client: the transport the thread holds
    image,           \* Painter.image: the frame the painter holds
    local,           \* work's local `image`, the frame a pass reads
    updated_image,   \* work's local `updated_image`
    todo,            \* the slice coordinates the pass has not visited yet
    inbox,           \* the frames queued in the painter's channel
    tx,              \* the send half of that channel: "held" or "dropped"
    first,           \* ImageManager.first
    index,           \* ImageManager.index, modulo the image count
    sent,            \* the send_pixel call of the last step (NoSend: none)
    out,             \* what the last step handed to the stream or socket
    calls,           \* the send_pixel and flush_pixels calls of the last step
    pass,            \* history: the pixel steps of this pass, and whether
                     \* one of them called send_pixel
    hadFrame,        \* history: a painter failed while it held a frame
    arrived,         \* history: the newest frame sent during this pass
    ages,            \* history: how many frames the painter received after
                     \* the frames it holds and reads, in this lifetime
    \* ---- SpecTcp: client.rs, a TextTcpClient and its BufStream
    tcp,             \* the TextTcpClient
    stream,          \* the bytes the write buffer of its BufStream holds
    wire,            \* what the last call wrote through to the socket
    tcpCall,         \* the last call made on the client
    tcpResult,       \* its result, "ok" or "err"
    handed,         \* what that call handed to the stream
    prevBuffer,      \* the batch buffer before that call
    interval,        \* history: the flushes since the last clear_buffers
    \* ---- SpecIcmp: icmp.rs, an Icmp value, and Pingv6Client of client.rs
    icmp,            \* the Icmp value
    icmpCall,        \* the last call: "new", "set_payload", "send", "send_pixel"
    icmpResult,      \* its result, "ok" or "err"
    sendto,          \* the packet and target that call handed to sendto
    prevSeq,         \* current_sequence_number before the last send
    sends,           \* the send calls made on this Icmp value
    target_network,  \* Pingv6Client::target_network
    pingCall,        \* the arguments of the last Pingv6Client::send_pixel
    pingCount,       \* the packets the Pingv6Client has handed to sendto
    \* ---- SpecPx: client.rs, write_pixel_noformat on one thread
    pxBuffer,        \* what the last call appended to its buffer
    pxCall,          \* the arguments of the last call
    pxResult,        \* "ok", or "panic" when the call panicked
    \* ---- SpecStart: main.rs, start up to the construction of the canvas
    startPc,         \* "gather", "size", "canvas" or "panicked"
    width,           \* Arguments::width, NoArg when not given
    height,          \* Arguments::height, NoArg when not given
    reply,           \* the line read_screen_size read from the server
    sizeResult,      \* how gather_host_facts ended: "ok", "err", "panic"
    screen_size,     \* gather_host_facts(..).ok()
    draw_size,       \* `size` of start, the size the canvas is built with
    \* ---- SpecCanvas: canvas.rs, the Canvas with all its painter threads
    canvas,          \* the flags of the Canvas the threads copy
    threads,         \* per painter: where its thread is and what it holds
    channels,        \* per painter: the frames queued in its channel
    lastStep,        \* history: what the last step was and what it called
    \* ---- SpecCoord: painter.rs, the coordinates handed to send_pixel
    geometry,        \* the draw size, painter count and offset of the Canvas,
                     \* and whether the build checks integer overflow
    paintCall,       \* the slice, offset and pixel of the last computation
    paintResult,     \* "ok", or "panic" when the addition panicked
    paintOut         \* the coordinate handed to send_pixel

hexVars   == <<STRING_BUFFER, hexSink, hexBefore, hexColor>>
sliceVars == <<size, painter_count, painter_handles, spawn_i>>
threadVars == <<pc, client, image, local, updated_image, todo, sent, out, calls,
               pass, hadFrame, arrived, ages>>
sourceVars == <<first, index>>
painterVars == <<cfg, threadVars, inbox, tx, sourceVars>>
tcpVars   == <<tcp, stream, wire, tcpCall, tcpResult, handed, prevBuffer, interval>>
icmpVars  == <<icmp, icmpCall, icmpResult, sendto, prevSeq, sends,
               target_network, pingCall, pingCount>>
pxVars    == <<pxBuffer, pxCall, pxResult>>
startVars == <<startPc, width, height, reply, sizeResult, screen_size, draw_size>>
fanVars   == <<canvas, threads, channels, lastStep>>
coordVars == <<geometry, paintCall, paintResult, paintOut>>
auxVars   == <<icmpVars, pxVars, startVars, fanVars, coordVars>>
vars      == <<hexVars, sliceVars, painterVars, tcpVars, auxVars>>

U16 == 65536

(***************************************************************************)
(* color.rs and the lookup table build.rs generates                        *)
(***************************************************************************)

\* The bytes the channels of a color are drawn from.
ByteSamples == {0, 18, 128, 255}

HexChars == <<"0","1","2","3","4","5","6","7","8","9","A","B","C","D","E","F">>

\* build.rs: format!("{byte:02X}"), the two uppercase hex digits of a byte.
HEX_TO_STR_8(byte) == <<HexChars[(byte \div 16) + 1], HexChars[(byte % 16) + 1]>>

\* The value of a hex digit, and of two of them: what a server reads back.
HexVal(ch) == (CHOOSE i \in 1..16 : HexChars[i] = ch) - 1
ParseByte(two) == 16 * HexVal(two[1]) + HexVal(two[2])

NoColor == [none |-> TRUE]
Color(r, g, b, a) == [r |-> r, g |-> g, b |-> b, a |-> a]
Colors == [r : ByteSamples, g : ByteSamples, b : ByteSamples, a : ByteSamples]

\* thread_local! STRING_BUFFER = "000000FF"
InitialStringBuffer == <<"0","0","0","0","0","0","F","F">>

\* copy_from_slice into buffer[from+1 .. from+2]
CopyTwo(buffer, from, two) ==
    [i \in 1..Len(buffer) |->
        IF i = from + 1 THEN two[1] ELSE IF i = from + 2 THEN two[2] ELSE buffer[i]]

\* The scratch buffer after write_hex(color): r, g, b always, a unless 0xff.
WriteHexBuffer(buffer, color) ==
    LET b1 == CopyTwo(buffer, 0, HEX_TO_STR_8(color.r))
        b2 == CopyTwo(b1, 2, HEX_TO_STR_8(color.g))
        b3 == CopyTwo(b2, 4, HEX_TO_STR_8(color.b))
    IN  IF color.a # 255 THEN CopyTwo(b3, 6, HEX_TO_STR_8(color.a)) ELSE b3

\* What write_hex appends to the caller's string: string.push_str(&buffer),
\* the whole scratch buffer.
WriteHexAppended(buffer, color) == WriteHexBuffer(buffer, color)

\* The strings a caller may hold before the call (write_pixel_noformat has
\* pushed "PX x y " before it calls write_hex).
SinkPrefixes == {<< >>, <<"P","X"," ","0"," ","0"," ">>}

InitHex ==
    /\ STRING_BUFFER = InitialStringBuffer
    /\ hexSink = << >>
    /\ hexBefore = << >>
    /\ hexColor = NoColor

\* Color::write_hex(self, string)
WriteHex ==
    \E color \in Colors, string \in SinkPrefixes :
        /\ STRING_BUFFER' = WriteHexBuffer(STRING_BUFFER, color)
        /\ hexSink' = string \o WriteHexAppended(STRING_BUFFER, color)
        /\ hexBefore' = string
        /\ hexColor' = color
        /\ UNCHANGED <<sliceVars, painterVars, tcpVars, auxVars>>

\* The characters the last call appended.
HexAppended == SubSeq(hexSink, Len(hexBefore) + 1, Len(hexSink))

\* The color a reader decodes from RRGGBB or RRGGBBAA (alpha 0xFF if elided).
DecodeHex(s) ==
    Color(ParseByte(SubSeq(s, 1, 2)), ParseByte(SubSeq(s, 3, 4)),
          ParseByte(SubSeq(s, 5, 6)),
          IF Len(s) >= 8 THEN ParseByte(SubSeq(s, 7, 8)) ELSE 255)

(***************************************************************************)
(* canvas.rs: Canvas::spawn_painters                                       *)
(***************************************************************************)

MaxWidth == 6
MaxHeight == 2
MaxPainters == 4

Rect(x, y, w, h) == [x |-> x, y |-> y, w |-> w, h |-> h]

\* A slice width rounded up instead of down.
SliceWidthRoundedUp(W, N) == (W + (N % U16) - 1) \div (N % U16)

\* let width = self.size.0 / (self.painter_count as u16);
SliceWidth(W, N) == W \div (N % U16)

\* Rect::from((i as u16) * width, 0, width, self.size.1)
PainterArea(i, W, H, N) ==
    Rect(((i % U16) * SliceWidth(W, N)) % U16, 0, SliceWidth(W, N), H)

\* The pixels of a half-open rectangle.
Cells(r) == {<<x, y>> \in (0..(MaxWidth + 1)) \X (0..(MaxHeight + 1)) :
                /\ r.x <= x /\ x < r.x + r.w
                /\ r.y <= y /\ y < r.y + r.h}

InitHexIdle ==
    /\ STRING_BUFFER = InitialStringBuffer
    /\ hexSink = << >>
    /\ hexBefore = << >>
    /\ hexColor = NoColor

InitSlicesIdle ==
    /\ size = <<0, 0>>
    /\ painter_count = 0
    /\ painter_handles = << >>
    /\ spawn_i = 0

\* Canvas::new: painter_handles empty, then spawn_painters runs.
InitSlices ==
    /\ size \in (0..MaxWidth) \X (0..MaxHeight)
    /\ painter_count \in 0..MaxPainters
    /\ painter_handles = << >>
    /\ spawn_i = 0

\* One iteration of `for i in 0..self.painter_count`: spawn_painter(area).
SpawnPainter ==
    /\ spawn_i < painter_count
    /\ painter_handles' =
          Append(painter_handles,
                 PainterArea(spawn_i, size[1], size[2], painter_count))
    /\ spawn_i' = spawn_i + 1
    /\ UNCHANGED <<size, painter_count, hexVars, painterVars, tcpVars, auxVars>>

SpawnDone == spawn_i = painter_count


(***************************************************************************)
(* The transports: client.rs, trait PixelClient and its implementations    *)
(***************************************************************************)

NoClient == [kind |-> "none"]

\* TextTcpClient::new: the batch buffer empty and not ready.
TextTcpClient(flush, should_buffer) ==
    [kind |-> "tcp", flush |-> flush, should_buffer |-> should_buffer,
     is_buffer_ready |-> FALSE, buffer |-> << >>]

\* Pingv6Client::new: only the target network, which never changes.
Pingv6Client == [kind |-> "ping"]

\* write_pixel_noformat: the line "PX x y <hex color>\n", kept as its fields.
PxLine(x, y, color) == [cmd |-> "PX", x |-> x, y |-> y, color |-> color]

\* The b"\n" flush_pixels writes after the batch, and the "\nQUIT\n" of drop.
Newline == [cmd |-> "NL"]
QuitLine == [cmd |-> "QUIT"]

\* Pingv6Client::send_pixel: the echo request, named by the last four words
\* of its target address: x, y, (r << 8) | g, b << 8.
EchoRequest(x, y, color) ==
    [cmd |-> "ECHO", x |-> x, y |-> y,
     rg |-> ((color.r * 256) % U16) + color.g, b0 |-> (color.b * 256) % U16]

\* send_pixel that appends to the batch even when the batch is ready.
SendPixelIgnoringReady(c, x, y, color) ==
    IF c.kind = "tcp" /\ c.should_buffer
    THEN [c EXCEPT !.buffer = Append(@, PxLine(x, y, color))]
    ELSE c

\* PixelClient::send_pixel, the client after the call.
SendPixel(c, x, y, color) ==
    IF c.kind = "tcp" /\ c.should_buffer /\ ~c.is_buffer_ready
    THEN [c EXCEPT !.buffer = Append(@, PxLine(x, y, color))]
    ELSE c

\* PixelClient::send_pixel, what it hands to the stream (write_pixel) or
\* to the raw socket (Icmp::send).
SendPixelOut(c, x, y, color) ==
    CASE c.kind = "tcp" /\ ~c.should_buffer -> <<PxLine(x, y, color)>>
      [] c.kind = "ping" -> <<EchoRequest(x, y, color)>>
      [] OTHER -> << >>

\* send_pixel returns Err only from the I/O it does.
SendPixelCanFail(c) == (c.kind = "tcp" /\ ~c.should_buffer) \/ c.kind = "ping"

\* PixelClient::flush_pixels, the client after the call.
FlushPixels(c) ==
    IF c.kind = "tcp" /\ c.should_buffer
    THEN [c EXCEPT !.is_buffer_ready = TRUE]
    ELSE c

\* PixelClient::flush_pixels, what it hands to the stream: the batch, "\n".
FlushPixelsOut(c) ==
    IF c.kind = "tcp" /\ c.should_buffer THEN c.buffer \o <<Newline>> ELSE << >>

FlushPixelsCanFail(c) == c.kind = "tcp" /\ c.should_buffer

\* PixelClient::clear_buffers
ClearBuffers(c) ==
    IF c.kind = "tcp"
    THEN [c EXCEPT !.is_buffer_ready = FALSE, !.buffer = << >>]
    ELSE c

\* A drop that writes nothing.
DropOutNothing(c) == << >>

\* impl Drop for TextTcpClient: what the drop hands to the stream.
DropOut(c) == IF c.kind = "tcp" THEN <<QuitLine>> ELSE << >>

(***************************************************************************)
(* Frames, the slice and the scan order: painter.rs                        *)
(***************************************************************************)

MaxImages == 2    \* the images loaded, and the distinct frames a source sends
MaxInbox == 2     \* the frames the (unbounded) channel holds in the model
AreaW == 2        \* the width of the painter's slice
AreaH == 1        \* the height of the painter's slice

ImageIds == 0..(MaxImages - 1)

\* Option::None for Painter.image.
NoImage == -1

NoSend == [none |-> TRUE]

\* A pass that has not taken a pixel step.
NoPass == [steps |-> 0, painted |-> FALSE]

\* A video frame that is transparent everywhere.
Blank == MaxImages

\* No frame, where the age of a frame is asked.
NoAge == -1

\* The age of a frame is the number of frames the painter has received
\* after it. Within one painter lifetime: the ages of the frame in
\* Painter.image, of the frame in work's `image`, of the frame the last
\* pixel was read from and of the newest frame a pixel was ever read from;
\* and the last frame a pixel step of the current pass adopted.
NoAges == [image |-> NoAge, local |-> NoAge, sourced |-> NoAge,
            newest |-> NoAge, adopted |-> NoImage]

Older(a) == IF a = NoAge THEN NoAge ELSE a + 1

\* A receive ages every frame the painter knows.
Received(o) == [o EXCEPT !.image = Older(@), !.local = Older(@),
                         !.sourced = Older(@), !.newest = Older(@)]

\* `image = new_image.into(); updated_image = true` in a pixel step.
Adopted(o, img) == [Received(o) EXCEPT !.local = 0, !.adopted = img]

\* image.get_pixel(x, y) reads work's `image`.
Sourced(o) ==
    [o EXCEPT !.sourced = o.local,
              !.newest = IF @ = NoAge \/ o.local < @ THEN o.local ELSE @]

\* `let mut image = self.image..to_rgba8()`: the pass reads a copy of the
\* frame the painter holds.
Polled(o) == [o EXCEPT !.local = o.image, !.adopted = NoImage]

\* `if updated_image { self.set_image(image.into()) }`, the end of work.
WrittenBack(o, updated) ==
    [o EXCEPT !.image = IF updated THEN o.local ELSE @, !.local = NoAge]

\* The frames a pipeline can deliver.
Frames == ImageIds \cup {Blank}

\* The frames: image img has alpha 0 where (x + 2y + img) is a multiple of 3,
\* and its colors differ from those of every other image at every pixel.
Pixel(img, x, y) ==
    IF img = Blank THEN Color(0, 0, 0, 0)
    ELSE Color(16 * (img + 1) + x, y, 0,
               IF (x + 2 * y + img) % 3 = 0 THEN 0
               ELSE IF (x + y) % 2 = 0 THEN 128 ELSE 255)

\* The slice of the painter: the second of two painters on a canvas of
\* width cfg.draw_w, which is 2 * AreaW, or 1, where the slices are empty.
area == PainterArea(1, cfg.draw_w, AreaH, 2)

\* The draw offset the painter adds (the OFFSET command is not used).
offset == <<1, 2>>

\* (0..self.area.w).cartesian_product(0..self.area.h)
AllCoords == (0..(area.w - 1)) \X (0..(area.h - 1))

\* for x in 0..w { for y in 0..h {..} }: x is the outer loop.
ScanLess(c, d) == c[1] < d[1] \/ (c[1] = d[1] /\ c[2] < d[2])
NextScan(S) == CHOOSE c \in S : \A d \in S \ {c} : ScanLess(c, d)

RECURSIVE ScanSeq(_)
ScanSeq(S) == IF S = {} THEN << >>
              ELSE <<NextScan(S)>> \o ScanSeq(S \ {NextScan(S)})

\* x + self.area.x + self.offset.0 and y + self.area.y + self.offset.1
PaintX(x) == (x + area.x + offset[1]) % U16
PaintY(y) == (y + area.y + offset[2]) % U16

(***************************************************************************)
(* The painter thread: canvas.rs spawn_painter / run_painter and           *)
(* painter.rs Painter::work                                                 *)
(***************************************************************************)

Configs ==
    {c \in [client_type : {"TextTcp", "PingV6"}, host_is_ipv6 : BOOLEAN,
            flush : BOOLEAN, should_buffer : BOOLEAN, slowpaint : BOOLEAN,
            pipeline : BOOLEAN, image_count : 0..MaxImages,
            draw_w : {2 * AreaW, 1}] :
        \* main.rs: should_buffer is image_manager.image_count() == 1
        /\ c.should_buffer = (c.image_count = 1)
        \* the host only has to parse as an IPv6 address for ping-v6
        /\ (c.client_type = "TextTcp" => c.host_is_ipv6)
        \* with a pipeline the loaded images are never sent: only whether
        \* there is exactly one of them matters
        /\ (c.pipeline => c.image_count <= 1)
        \* the stream's own buffer is outside this specification
        /\ c.flush}

InitPainterIdle ==
    /\ cfg = [client_type |-> "TextTcp", host_is_ipv6 |-> TRUE, flush |-> TRUE,
              should_buffer |-> FALSE, slowpaint |-> FALSE, pipeline |-> FALSE,
              image_count |-> 0, draw_w |-> 2 * AreaW]
    /\ pc = "idle"
    /\ client = NoClient
    /\ image = NoImage
    /\ local = NoImage
    /\ updated_image = FALSE
    /\ todo = {}
    /\ inbox = << >>
    /\ tx = "held"
    /\ first = FALSE
    /\ index = 0
    /\ sent = NoSend
    /\ out = << >>
    /\ calls = << >>
    /\ pass = NoPass
    /\ hadFrame = FALSE
    /\ arrived = NoImage
    /\ ages = NoAges

\* Canvas::new has spawned the thread, ImageManager::from has run: the
\* thread is at the top of its loop, the channel is empty.
InitPainter ==
    /\ cfg \in Configs
    /\ pc = "connect"
    /\ client = NoClient
    /\ image = NoImage
    /\ local = NoImage
    /\ updated_image = FALSE
    /\ todo = {}
    /\ inbox = << >>
    /\ tx = "held"
    /\ first = FALSE
    /\ index = 0
    /\ sent = NoSend
    /\ out = << >>
    /\ calls = << >>
    /\ pass = NoPass
    /\ hadFrame = FALSE
    /\ arrived = NoImage
    /\ ages = NoAges

\* A call the step made on its transport, and whether it returned Ok.
Call(name, ok) == [name |-> name, ok |-> ok]

Quiet == sent' = NoSend /\ out' = << >> /\ calls' = << >>

\* A pass that ends with its first pixel step.
AfterPixelEarly(rest) == "finish"

\* Where the thread goes after a pass position: on to the flush when the
\* slice is exhausted.
AfterPixel(rest) == IF rest = {} THEN "finish" ELSE "scan"

\* A thread that leaves its loop after the sleep.
AfterBackoffExit == "exited"

\* canvas.rs: the sleep is the last statement of `loop { .. }`.
AfterBackoff == "connect"

\* A run_painter whose transport lives on through the sleep.
WorkFailsHoldsTransport(written, call, made) ==
    /\ pc' = "backoff"
    /\ hadFrame' = (hadFrame \/ image # NoImage)
    /\ out' = written
    /\ sent' = call
    /\ calls' = made
    /\ pass' = NoPass
    /\ client' = client
    /\ image' = NoImage
    /\ local' = NoImage
    /\ updated_image' = FALSE
    /\ todo' = {}
    /\ arrived' = NoImage
    /\ ages' = NoAges

\* An error that is noted while the painter goes on with its transport.
WorkFailsKeepsPainting(written, call, made) ==
    /\ out' = written
    /\ sent' = call
    /\ calls' = made
    /\ UNCHANGED <<pc, client, image, local, updated_image, todo, pass, hadFrame, arrived, ages>>

\* work returned Err: run_painter breaks and returns, which drops the
\* painter with its transport and its frame; the thread goes to its sleep.
WorkFails(written, call, made) ==
    /\ pc' = "backoff"
    /\ hadFrame' = (hadFrame \/ image # NoImage)
    /\ out' = written \o DropOut(client)
    /\ sent' = call
    /\ calls' = made
    /\ pass' = NoPass
    /\ client' = NoClient
    /\ image' = NoImage
    /\ local' = NoImage
    /\ updated_image' = FALSE
    /\ todo' = {}
    /\ arrived' = NoImage
    /\ ages' = NoAges

\* The top of the thread's loop: build the transport, then run_painter
\* makes a Painter without a frame.
Connect ==
    /\ pc = "connect"
    /\ \/ /\ cfg.client_type = "PingV6" /\ cfg.host_is_ipv6
          /\ client' = Pingv6Client
          /\ pc' = "recv"
       \/ /\ cfg.client_type = "PingV6" /\ ~cfg.host_is_ipv6
          \* target_network.unwrap() on None
          /\ client' = NoClient
          /\ pc' = "panicked"
       \/ /\ cfg.client_type = "TextTcp"
          /\ client' = TextTcpClient(cfg.flush, cfg.should_buffer)
          /\ pc' = "recv"
       \/ /\ cfg.client_type = "TextTcp"
          \* TextTcpClient::connect returned Err
          /\ client' = NoClient
          /\ pc' = "backoff"
    /\ Quiet
    /\ UNCHANGED <<image, local, updated_image, todo, pass, hadFrame, arrived, ages>>
    /\ UNCHANGED <<cfg, tx, inbox, sourceVars, hexVars, sliceVars, tcpVars, auxVars>>

\* work without the wait for the first frame.
RecvFirstWithoutFrame ==
    /\ pc = "recv"
    /\ pc' = "poll"
    /\ Quiet
    /\ UNCHANGED <<client, image, local, updated_image, todo, pass, hadFrame, arrived, ages>>
    /\ UNCHANGED <<cfg, tx, inbox, sourceVars, hexVars, sliceVars, tcpVars, auxVars>>

\* work, `if self.image.is_none()`: the blocking recv of the first frame.
\* recv returns Err once the channel is empty and its sender is dropped:
\* the error is logged, the try_recv that follows fails too, and
\* `self.image.as_mut().ok_or(anyhow!("no image"))?` returns Err.
RecvFirst ==
    /\ pc = "recv"
    /\ \/ /\ inbox # << >>
          /\ image' = Head(inbox)
          /\ client' = ClearBuffers(client)
          /\ inbox' = Tail(inbox)
          /\ ages' = [Received(ages) EXCEPT !.image = 0]
          /\ pc' = "poll"
          /\ Quiet
          /\ UNCHANGED <<local, updated_image, todo, pass, hadFrame, arrived>>
       \/ /\ inbox = << >> /\ tx = "dropped"
          /\ WorkFails(<< >>, NoSend, << >>)
          /\ UNCHANGED inbox
    /\ UNCHANGED <<cfg, tx, sourceVars, hexVars, sliceVars, tcpVars, auxVars>>

\* work, the try_recv before the pass and `let mut image = ..to_rgba8()`.
Poll ==
    /\ pc = "poll"
    /\ LET got == inbox # << >>
           img == IF got THEN Head(inbox) ELSE image
       IN  /\ image' = img
           /\ client' = IF got THEN ClearBuffers(client) ELSE client
           /\ inbox' = IF got THEN Tail(inbox) ELSE inbox
           /\ local' = img
           /\ ages' = Polled(IF got THEN [Received(ages) EXCEPT !.image = 0]
                                      ELSE ages)
    /\ updated_image' = FALSE
    /\ todo' = AllCoords
    /\ pc' = AfterPixel(AllCoords)
    /\ arrived' = NoImage
    /\ pass' = NoPass
    /\ Quiet
    /\ UNCHANGED hadFrame
    /\ UNCHANGED <<cfg, tx, sourceVars, hexVars, sliceVars, tcpVars, auxVars>>

\* One iteration of the scanline loop.
ScanPixel ==
    /\ pc = "scan" /\ ~cfg.slowpaint
    /\ LET c == NextScan(todo)
           got == inbox # << >>
           img == IF got THEN Head(inbox) ELSE local
           color == Pixel(img, c[1], c[2])
           call == [x |-> PaintX(c[1]), y |-> PaintY(c[2]), color |-> color]
           read == Sourced(IF got THEN Adopted(ages, Head(inbox)) ELSE ages)
       IN  /\ inbox' = IF got THEN Tail(inbox) ELSE inbox
           /\ \/ /\ color.a = 0
                 \* continue
                 /\ Quiet
                 /\ UNCHANGED client
                 /\ pass' = [pass EXCEPT !.steps = @ + 1]
                 /\ local' = img
                 /\ updated_image' = (updated_image \/ got)
                 /\ todo' = todo \ {c}
                 /\ pc' = AfterPixel(todo \ {c})
                 /\ ages' = read
                 /\ UNCHANGED <<image, hadFrame, arrived>>
              \/ /\ color.a # 0
                 /\ client' = SendPixel(client, call.x, call.y, color)
                 /\ sent' = call
                 /\ out' = SendPixelOut(client, call.x, call.y, color)
                 /\ calls' = <<Call("send_pixel", TRUE)>>
                 /\ pass' = [steps |-> pass.steps + 1, painted |-> TRUE]
                 /\ local' = img
                 /\ updated_image' = (updated_image \/ got)
                 /\ todo' = todo \ {c}
                 /\ pc' = AfterPixel(todo \ {c})
                 /\ ages' = read
                 /\ UNCHANGED <<image, hadFrame, arrived>>
              \/ /\ color.a # 0
                 /\ SendPixelCanFail(client)
                 /\ WorkFails(<< >>, call, <<Call("send_pixel", FALSE)>>)
    /\ UNCHANGED <<cfg, tx, sourceVars, hexVars, sliceVars, tcpVars, auxVars>>

\* One iteration of the slow-paint loop, over the shuffled list.
SlowPixel ==
    /\ pc = "scan" /\ cfg.slowpaint
    /\ \E c \in todo :
        LET got == inbox # << >>
            img == IF got THEN Head(inbox) ELSE local
            color == Pixel(img, c[1], c[2])
            call == [x |-> PaintX(c[1]), y |-> PaintY(c[2]), color |-> color]
            c1 == SendPixel(client, call.x, call.y, color)
            written == SendPixelOut(client, call.x, call.y, color)
            read == Sourced(IF got THEN Adopted(ages, Head(inbox)) ELSE ages)
        IN  /\ inbox' = IF got THEN Tail(inbox) ELSE inbox
            /\ \/ /\ client' = FlushPixels(c1)
                  /\ sent' = call
                  /\ out' = written \o FlushPixelsOut(c1)
                  /\ calls' = <<Call("send_pixel", TRUE), Call("flush_pixels", TRUE)>>
                  /\ pass' = [steps |-> pass.steps + 1, painted |-> TRUE]
                  /\ local' = img
                  /\ updated_image' = (updated_image \/ got)
                  /\ todo' = todo \ {c}
                  /\ pc' = AfterPixel(todo \ {c})
                  /\ ages' = read
                  /\ UNCHANGED <<image, hadFrame, arrived>>
               \/ /\ SendPixelCanFail(client)
                  /\ WorkFails(<< >>, call, <<Call("send_pixel", FALSE)>>)
               \/ /\ FlushPixelsCanFail(c1)
                  /\ WorkFails(written, call,
                               <<Call("send_pixel", TRUE), Call("flush_pixels", FALSE)>>)
    /\ UNCHANGED <<cfg, tx, sourceVars, hexVars, sliceVars, tcpVars, auxVars>>

\* work that returns without writing its local frame back.
FinishWithoutWriteBack ==
    /\ pc = "finish"
    /\ \/ /\ image' = image
          /\ client' = FlushPixels(client)
          /\ out' = FlushPixelsOut(client)
          /\ sent' = NoSend
          /\ calls' = <<Call("flush_pixels", TRUE)>>
          /\ pc' = "poll"
          /\ local' = NoImage
          /\ updated_image' = FALSE
          /\ todo' = {}
          /\ ages' = WrittenBack(ages, FALSE)
          /\ UNCHANGED <<pass, hadFrame, arrived>>
       \/ /\ FlushPixelsCanFail(client)
          /\ WorkFails(<< >>, NoSend, <<Call("flush_pixels", FALSE)>>)
    /\ UNCHANGED <<cfg, tx, inbox, sourceVars, hexVars, sliceVars, tcpVars, auxVars>>

\* work that flushes only when the pass has sent a pixel.
FinishFlushesIfPainted ==
    /\ pc = "finish"
    /\ LET c0 == IF updated_image THEN ClearBuffers(client) ELSE client
       IN  \/ /\ image' = (IF updated_image THEN local ELSE image)
              /\ client' = IF pass.painted THEN FlushPixels(c0) ELSE c0
              /\ out' = IF pass.painted THEN FlushPixelsOut(c0) ELSE << >>
              /\ sent' = NoSend
              /\ calls' = IF pass.painted THEN <<Call("flush_pixels", TRUE)>> ELSE << >>
              /\ pc' = "poll"
              /\ local' = NoImage
              /\ updated_image' = FALSE
              /\ todo' = {}
              /\ ages' = WrittenBack(ages, updated_image)
              /\ UNCHANGED <<pass, hadFrame, arrived>>
           \/ /\ pass.painted /\ FlushPixelsCanFail(c0)
              /\ WorkFails(<< >>, NoSend, <<Call("flush_pixels", FALSE)>>)
    /\ UNCHANGED <<cfg, tx, inbox, sourceVars, hexVars, sliceVars, tcpVars, auxVars>>

\* work after the loops: write the frame back, flush, return Ok; the loop
\* of run_painter calls work again, which holds a frame now.
Finish ==
    /\ pc = "finish"
    /\ LET c0 == IF updated_image THEN ClearBuffers(client) ELSE client
       IN  \/ /\ image' = (IF updated_image THEN local ELSE image)
              /\ client' = FlushPixels(c0)
              /\ out' = FlushPixelsOut(c0)
              /\ sent' = NoSend
              /\ calls' = <<Call("flush_pixels", TRUE)>>
              /\ pc' = "poll"
              /\ local' = NoImage
              /\ updated_image' = FALSE
              /\ todo' = {}
              /\ ages' = WrittenBack(ages, updated_image)
              /\ UNCHANGED <<pass, hadFrame, arrived>>
           \/ /\ FlushPixelsCanFail(c0)
              /\ WorkFails(<< >>, NoSend, <<Call("flush_pixels", FALSE)>>)
    /\ UNCHANGED <<cfg, tx, inbox, sourceVars, hexVars, sliceVars, tcpVars, auxVars>>

\* sleep(Duration::from_millis(500)), then the loop starts over.
Backoff ==
    /\ pc = "backoff"
    /\ pc' = AfterBackoff
    /\ Quiet
    /\ UNCHANGED <<client, image, local, updated_image, todo, pass, hadFrame, arrived, ages>>
    /\ UNCHANGED <<cfg, tx, inbox, sourceVars, hexVars, sliceVars, tcpVars, auxVars>>

PainterStep == Connect \/ RecvFirst \/ Poll \/ ScanPixel \/ SlowPixel \/ Finish \/ Backoff

(***************************************************************************)
(* The frame sources: image_manager.rs ImageManager::tick (called forever  *)
(* by ImageManager::work) and the new_sample callback of gst.rs; both call *)
(* Canvas::update_image, which sends the frame into the painter's channel. *)
(***************************************************************************)

\* A channel that hands out the newest frame first.
UpdateImageInFront(img) ==
    /\ tx = "held"
    /\ Len(inbox) < MaxInbox
    /\ inbox' = <<img>> \o inbox
    /\ arrived' = IF pc = "scan" THEN img ELSE arrived

\* Canvas::update_image, for the one painter of this specification.
UpdateImage(img) ==
    /\ tx = "held"
    /\ Len(inbox) < MaxInbox
    /\ inbox' = Append(inbox, img)
    /\ arrived' = IF pc = "scan" THEN img ELSE arrived

\* A tick that sends the image again although it is the only one.
TickAlwaysSends ==
    /\ pc # "idle" /\ ~cfg.pipeline
    /\ \/ /\ cfg.image_count = 0
          /\ UNCHANGED vars
       \/ /\ cfg.image_count > 0
          /\ UpdateImage(index % cfg.image_count)
          /\ index' = (index + 1) % cfg.image_count
          /\ first' = TRUE
          /\ Quiet
          /\ UNCHANGED <<pc, client, image, local, updated_image, todo, pass, hadFrame, ages>>
          /\ UNCHANGED <<cfg, tx, hexVars, sliceVars, tcpVars, auxVars>>

Tick ==
    /\ pc # "idle" /\ ~cfg.pipeline
    /\ \/ /\ cfg.image_count = 0
          \* return None
          /\ UNCHANGED vars
       \/ /\ first /\ cfg.image_count = 1
          \* return None
          /\ UNCHANGED vars
       \/ /\ cfg.image_count > 0
          /\ ~(first /\ cfg.image_count = 1)
          /\ UpdateImage(index % cfg.image_count)
          /\ index' = (index + 1) % cfg.image_count
          /\ first' = TRUE
          /\ Quiet
          /\ UNCHANGED <<pc, client, image, local, updated_image, todo, pass, hadFrame, ages>>
          /\ UNCHANGED <<cfg, tx, hexVars, sliceVars, tcpVars, auxVars>>

NewSample ==
    /\ pc # "idle" /\ cfg.pipeline
    /\ \E img \in Frames : UpdateImage(img)
    /\ Quiet
    /\ UNCHANGED <<pc, client, image, local, updated_image, todo, pass, hadFrame, ages>>
    /\ UNCHANGED <<cfg, tx, sourceVars, hexVars, sliceVars, tcpVars, auxVars>>

\* The Canvas is dropped, and with it the Handle and the Sender of the
\* painter: create_pipeline takes the Canvas by value and returns early on
\* an error, and the callback that owns it goes with the GstSink when
\* GstSink::work has returned.
DropCanvas ==
    /\ pc # "idle" /\ cfg.pipeline
    /\ tx = "held"
    /\ tx' = "dropped"
    /\ Quiet
    /\ UNCHANGED <<pc, client, image, local, updated_image, todo, pass, hadFrame, arrived, ages>>
    /\ UNCHANGED <<cfg, inbox, sourceVars, hexVars, sliceVars, tcpVars, auxVars>>

Next == PainterStep \/ Tick \/ NewSample \/ DropCanvas

(***************************************************************************)
(* A TextTcpClient with its BufStream, under any sequence of calls of the  *)
(* PixelClient trait: client.rs                                            *)
(***************************************************************************)

MaxBatch == 2     \* the PX lines the batch buffer holds in the model
StreamCap == 2    \* the capacity of the write buffer, in lines (8 KiB)

\* The send_pixel calls made on the client.
PxArgs == {[x |-> 0, y |-> 0, color |-> Color(255, 0, 0, 255)],
           [x |-> 1, y |-> 0, color |-> Color(18, 52, 86, 128)]}

\* BufStream::with_capacities(128, 8 * 1024, stream), write_all: data that
\* does not fit flushes the buffer first; data as large as the buffer is
\* handed through.
WriteAll(pending, data) ==
    LET spare == StreamCap - Len(pending)
    IN  IF Len(data) < spare
        THEN [buf |-> pending \o data, wire |-> << >>]
        ELSE LET kept == IF Len(data) > spare THEN << >> ELSE pending
                 gone == IF Len(data) > spare THEN pending ELSE << >>
             IN  IF Len(data) >= StreamCap
                 THEN [buf |-> kept, wire |-> gone \o data]
                 ELSE [buf |-> kept \o data, wire |-> gone]

\* stream.flush()
FlushStream(w) == [buf |-> << >>, wire |-> w.wire \o w.buf]

NoInterval == [none |-> TRUE]

InitTcpIdle ==
    /\ tcp = NoClient
    /\ stream = << >>
    /\ wire = << >>
    /\ tcpCall = "none"
    /\ tcpResult = "ok"
    /\ handed = << >>
    /\ prevBuffer = << >>
    /\ interval = NoInterval

\* TextTcpClient::new
InitTcp ==
    /\ \E flush \in BOOLEAN, should_buffer \in BOOLEAN :
          tcp = TextTcpClient(flush, should_buffer)
    /\ stream = << >>
    /\ wire = << >>
    /\ tcpCall = "new"
    /\ tcpResult = "ok"
    /\ handed = << >>
    /\ prevBuffer = << >>
    /\ interval = NoInterval

\* send_pixel: in batch mode the line goes to the batch unless the batch is
\* ready; otherwise write_pixel formats it and write_command writes it, and
\* flushes the stream if `flush` is set.
CallSendPixel ==
    \E a \in PxArgs :
        LET data == SendPixelOut(tcp, a.x, a.y, a.color)
            w0 == WriteAll(stream, data)
            w == IF ~tcp.should_buffer /\ tcp.flush THEN FlushStream(w0) ELSE w0
        IN  /\ Len(SendPixel(tcp, a.x, a.y, a.color).buffer) <= MaxBatch
            /\ tcpCall' = "send_pixel"
            /\ prevBuffer' = tcp.buffer
            /\ tcp' = SendPixel(tcp, a.x, a.y, a.color)
            /\ interval' = IF interval = NoInterval THEN interval
                           ELSE [interval EXCEPT !.sends = TRUE]
            /\ \/ /\ tcpResult' = "ok"
                  /\ handed' = data
                  /\ stream' = w.buf
                  /\ wire' = w.wire
               \/ /\ w.wire # << >>
                  \* the write to the socket fails
                  /\ tcpResult' = "err"
                  /\ handed' = << >>
                  /\ wire' = << >>
                  /\ UNCHANGED stream
            /\ UNCHANGED <<hexVars, sliceVars, painterVars, auxVars>>

\* flush_pixels: in batch mode mark the batch ready, write it and "\n" and
\* flush the stream; otherwise nothing.
CallFlushPixels ==
    LET data == FlushPixelsOut(tcp)
        w == IF tcp.should_buffer
             THEN FlushStream(
                    LET w1 == WriteAll(stream, tcp.buffer)
                        w2 == WriteAll(w1.buf, <<Newline>>)
                    IN  [buf |-> w2.buf, wire |-> w1.wire \o w2.wire])
             ELSE [buf |-> stream, wire |-> << >>]
    IN  /\ tcpCall' = "flush_pixels"
        /\ prevBuffer' = tcp.buffer
        /\ tcp' = FlushPixels(tcp)
        /\ interval' =
              IF ~tcp.should_buffer THEN interval
              ELSE IF interval = NoInterval
                   THEN [batch |-> tcp.buffer, flushes |-> 1, sends |-> FALSE]
                   ELSE [interval EXCEPT !.flushes = 2]
        /\ \/ /\ tcpResult' = "ok"
              /\ handed' = data
              /\ stream' = w.buf
              /\ wire' = w.wire
           \/ /\ FlushPixelsCanFail(tcp)
              /\ tcpResult' = "err"
              /\ handed' = << >>
              /\ wire' = << >>
              /\ UNCHANGED stream
        /\ UNCHANGED <<hexVars, sliceVars, painterVars, auxVars>>

\* clear_buffers
CallClearBuffers ==
    /\ tcpCall' = "clear_buffers"
    /\ tcpResult' = "ok"
    /\ prevBuffer' = tcp.buffer
    /\ tcp' = ClearBuffers(tcp)
    /\ interval' = NoInterval
    /\ handed' = << >>
    /\ wire' = << >>
    /\ UNCHANGED stream
    /\ UNCHANGED <<hexVars, sliceVars, painterVars, auxVars>>

NextTcp == CallSendPixel \/ CallFlushPixels \/ CallClearBuffers

(***************************************************************************)
(* Claims about the TextTcpClient                                          *)
(***************************************************************************)

\* C9: in batch mode, from the first flush_pixels after a clear_buffers to
\* the next clear_buffers, no send_pixel changes the batch buffer and every
\* flush_pixels that succeeds hands the stream the same bytes: the batch as
\* it was at that first flush, then one newline.
C9_ReadyBatchIsFrozen ==
    tcp.should_buffer =>
        /\ (tcpCall = "send_pixel" /\ interval # NoInterval)
              => tcp.buffer = prevBuffer
        /\ (tcpCall = "flush_pixels" /\ tcpResult = "ok")
              => handed = interval.batch \o <<Newline>>

\* C9's case: a second flush of a batch that holds lines, with a send_pixel
\* call between the two flushes.
C9_Witness ==
    /\ tcp.should_buffer /\ tcpCall = "flush_pixels" /\ tcpResult = "ok"
    /\ interval # NoInterval /\ interval.flushes = 2 /\ interval.sends
    /\ tcp.buffer # << >>

\* C11: in every mode of the TCP transport, when flush_pixels returns Ok the
\* write buffer of the stream holds nothing: every byte an earlier
\* send_pixel produced has been written to the socket.
C11_FlushEmptiesStream ==
    (tcpCall = "flush_pixels" /\ tcpResult = "ok") => stream = << >>

(***************************************************************************)
(* Claims about the painter thread                                         *)
(***************************************************************************)

\* C1: in every pass, scanline or slow-paint, with any transport, the
\* painter makes no send_pixel call for a pixel whose alpha is 0 in the
\* frame the pass reads at that step.
C1_NoTransparentSend == sent # NoSend => sent.color.a # 0

\* C5: when the construction of the transport fails or work returns an
\* error, the thread does not terminate: the transport is dropped, the
\* thread sleeps and then builds a transport again, however often it fails.
C5_FailureLeadsToReconnect ==
    /\ [][(client # NoClient /\ client' = NoClient) => pc' = "backoff"]_vars
    /\ [][(pc = "connect" /\ cfg.client_type = "TextTcp")
              => pc' \in {"connect", "recv", "backoff"}]_vars
    /\ [](pc = "backoff" => client = NoClient)
    /\ [][pc = "backoff" => pc' \in {"backoff", "connect"}]_vars
    /\ (pc = "backoff") ~> (pc = "connect")
    /\ (pc = "connect") ~> (pc # "connect")

\* C5's case: a pass has failed on a painter that held a frame, and the
\* thread is in its sleep without a transport.
C5_Witness == pc = "backoff" /\ hadFrame /\ client = NoClient

\* C6: a painter that held a frame, lost its transport and got a new one
\* paints its slice again, also when update_image is never called again
\* (for a slice that has pixels, while the Canvas is there).
C6_RepaintsAfterReconnect ==
    (hadFrame /\ pc = "recv" /\ area.w > 0) ~> (pc = "scan" \/ tx = "dropped")

\* The slice coordinate a send_pixel call was made for.
SentCoord ==
    CHOOSE c \in AllCoords : PaintX(c[1]) = sent.x /\ PaintY(c[2]) = sent.y

\* C7: once a frame has been placed in the inbox during a pass, every color
\* the painter sends from its next pixel step on is the color of that frame
\* (of the newest such frame), none that of the frame before.
C7_SourcesFromNewFrame ==
    (pc \in {"scan", "finish"} /\ arrived # NoImage /\ sent # NoSend) =>
        sent.color = Pixel(arrived, SentCoord[1], SentCoord[2])

\* C8: a pass never takes the last pixel of the slice from a frame F while
\* frames newer than F, queued before that pixel step, stay in the inbox:
\* the receive adopts the newest frame queued.
C8_NewestFrameAdopted ==
    [][(pc = "scan" /\ pc' = "finish") => inbox' = << >>]_vars

\* The PX lines of the non-transparent pixels of the slice, in scan order.
BatchOf(img) ==
    LET order == ScanSeq(AllCoords)
        lines == [i \in 1..Len(order) |->
                    PxLine(PaintX(order[i][1]), PaintY(order[i][2]),
                           Pixel(img, order[i][1], order[i][2]))]
        Visible(l) == l.color.a # 0
    IN  SelectSeq(lines, Visible)

\* C10: in TCP batch mode on the scanline path, a batch that is marked
\* ready holds one PX line for each non-transparent pixel of the slice of
\* the frame the painter holds: it is never ready while empty or while it
\* holds lines of an earlier frame.
C10_ReadyBatchIsTheFrame ==
    (client.kind = "tcp" /\ client.should_buffer /\ ~cfg.slowpaint
        /\ client.is_buffer_ready)
    => client.buffer = BatchOf(image)

\* C12: the step that drops a TCP transport writes "\nQUIT\n" exactly once,
\* as the last thing written on the connection, and goes on to the backoff
\* whether or not that write succeeds; no other step writes QUIT, and
\* nothing is written while the thread holds no transport.
C12_QuitOnceOnDrop ==
    /\ [][(client.kind = "tcp" /\ client' = NoClient) =>
            /\ out' # << >> /\ out'[Len(out')] = QuitLine
            /\ \A i \in 1..(Len(out') - 1) : out'[i] # QuitLine
            /\ pc' = "backoff"]_vars
    /\ [][(client.kind # "tcp" \/ client' # NoClient) =>
            \A i \in 1..Len(out') : out'[i] # QuitLine]_vars
    /\ [][(client = NoClient /\ client' = NoClient) => out' = << >>]_vars

\* C12's case: the connection of a painter that was painting a frame has
\* been dropped, and the QUIT is the last thing written on it.
C12_Witness ==
    /\ pc = "backoff" /\ hadFrame /\ ~cfg.should_buffer
    /\ cfg.client_type = "TextTcp"
    /\ out # << >> /\ out[Len(out)] = QuitLine

\* C20: with the ping-v6 backend and a host that is no IPv6 address the
\* painter thread stays in its respawn loop, between the failing
\* construction and the backoff, and never terminates.
C20_InvalidPrefixRespawns ==
    (cfg.client_type = "PingV6" /\ ~cfg.host_is_ipv6)
        => pc \in {"connect", "backoff"}

\* C26: a painter without a first frame holds its transport and waits in
\* the receive, nowhere else, and every step that calls send_pixel or
\* flush_pixels is taken by a painter that holds a frame.
C26_NoCallBeforeFirstFrame ==
    /\ [](pc = "recv" => (client # NoClient /\ image = NoImage))
    /\ []((client # NoClient /\ image = NoImage) => pc = "recv")
    /\ [][calls' # << >> => image # NoImage]_vars

\* A respawned painter waiting for its first frame with its new transport.
C26_Witness ==
    pc = "recv" /\ hadFrame /\ client # NoClient /\ image = NoImage /\ inbox = << >>

\* C27: a pass starts with all coordinates of the slice to visit; each
\* pixel step takes exactly one coordinate not visited before, whether or
\* not it adopts a frame, and a send_pixel call is for that coordinate; the
\* pass reaches its end when none is left, after w * h pixel steps; with
\* w = 0 it goes from its start to its end at once, without a call.
C27_PassVisitsEachOnce ==
    /\ [][(pc = "poll" /\ pc' # "poll") => (todo' = AllCoords /\ pass' = NoPass)]_vars
    /\ [][(pc = "scan" /\ pass'.steps # pass.steps /\ pc' # "backoff") =>
            /\ todo' \subseteq todo
            /\ Cardinality(todo') = Cardinality(todo) - 1
            /\ pass'.steps = pass.steps + 1
            /\ (sent' # NoSend => SentCoord' \in (todo \ todo'))]_vars
    /\ [][(pc = "scan" /\ pc' # "backoff") => <<todo, pass.steps>> = <<todo', pass'.steps>>
            \/ (todo' # todo /\ pass'.steps # pass.steps)]_vars
    /\ [](pc = "scan" => todo # {})
    /\ [](pc = "finish" => (todo = {} /\ pass.steps = area.w * area.h))
    /\ [][(pc = "poll" /\ pc' # "poll" /\ area.w = 0)
            => (pc' = "finish" /\ calls' = << >>)]_vars

\* A pass over a slice of more than one pixel that adopted a frame on its
\* way has reached its end.
C27_Witness ==
    pc = "finish" /\ updated_image /\ area.w * area.h > 1 /\ inbox # << >>

\* C28: a send_pixel or flush_pixels call that returns an error is the last
\* call of its step, the step drops the transport and leads to the backoff,
\* so that no call is made on that transport again; a thread without a
\* transport makes no call.
C28_ErrorEndsWork ==
    /\ [](\A i \in 1..Len(calls) :
              ~calls[i].ok => (i = Len(calls) /\ pc = "backoff" /\ client = NoClient))
    /\ [][client = NoClient => calls' = << >>]_vars

\* In slow-paint mode send_pixel has failed: the flush after it was not
\* called.
C28_Witness ==
    pc = "backoff" /\ cfg.slowpaint /\ calls = <<Call("send_pixel", FALSE)>>

\* C29: in slow-paint mode every pixel step takes a coordinate not visited
\* in this pass, calls send_pixel and then flush_pixels, and with the TCP
\* transport, in batch mode too, hands the PX line of its pixel to the
\* stream when the pixel is not transparent.
C29_SlowPaintWritesEveryPixel ==
    [][(pc = "scan" /\ cfg.slowpaint /\ pass'.steps # pass.steps /\ pc' # "backoff") =>
        /\ todo' \subseteq todo
        /\ Cardinality(todo') = Cardinality(todo) - 1
        /\ calls' = <<Call("send_pixel", TRUE), Call("flush_pixels", TRUE)>>
        /\ (client.kind = "tcp" /\ sent'.color.a # 0) =>
               \E i \in 1..Len(out') :
                   out'[i] = PxLine(sent'.x, sent'.y, sent'.color)]_vars

\* C30: the step that ends a pass without an error calls flush_pixels,
\* once; it is the only way a pass ends, it comes when no coordinate is
\* left, and on the scanline path no pixel step calls flush_pixels.
C30_FlushOncePerPass ==
    /\ [][(pc = "finish" /\ pc' = "poll") => calls' = <<Call("flush_pixels", TRUE)>>]_vars
    /\ [][pc' = "poll" => pc \in {"poll", "recv", "finish"}]_vars
    /\ [](pc = "finish" => todo = {})
    /\ [][(pc = "scan" /\ ~cfg.slowpaint) =>
            \A i \in 1..Len(calls') : calls'[i].name # "flush_pixels"]_vars

\* A scanline pass over a slice whose pixels were all transparent has
\* ended: no send_pixel call, one flush_pixels call.
C30_Witness ==
    /\ pc = "poll" /\ ~cfg.slowpaint /\ calls = <<Call("flush_pixels", TRUE)>>
    /\ area.w * area.h > 0 /\ pass.steps = area.w * area.h /\ ~pass.painted

\* The painter thread has ended: it left its loop, or it unwound in a panic.
ThreadEnded == pc \in {"exited", "panicked"}

\* C21: once the sender of the inbox is dropped and the inbox is empty, a
\* painter that waits for its first frame leaves the wait and its thread
\* eventually terminates.
C21_ClosedInboxEndsThread ==
    (tx = "dropped" /\ inbox = << >> /\ pc = "recv") ~> ThreadEnded

\* ImageManager::tick sends images[index % bound] and then increments
\* index: of the frames queued, the one sent first is this image.
OldestQueued ==
    (index + MaxInbox * cfg.image_count - Len(inbox)) % cfg.image_count

\* C31: a painter adopts frames in the order they were passed to
\* update_image. Each receive takes the frame at the front of the queue,
\* which is the oldest one still queued (with an image source, the image
\* the tick counter says was sent first) and is the frame the painter goes
\* on with; and within one painter lifetime a pixel is never read from a
\* frame that was received before a frame a pixel was read from already.
C31_FramesInSendOrder ==
    /\ [][Len(inbox') < Len(inbox) =>
            /\ inbox' = Tail(inbox)
            /\ (~cfg.pipeline => Head(inbox) = OldestQueued)
            /\ (pc' # "backoff" =>
                    (IF pc = "scan" THEN local' ELSE image') = Head(inbox))]_vars
    /\ [](ages.sourced # NoAge => ages.sourced <= ages.newest)

\* Two images alternate; the pass adopted a frame between two of its pixels
\* and read a pixel from it while the next frame was already queued.
C31_Witness ==
    /\ ~cfg.pipeline /\ cfg.image_count = 2
    /\ pc \in {"scan", "finish"} /\ pass.steps >= 2 /\ updated_image
    /\ ages.sourced = 0 /\ ages.image >= 1
    /\ inbox # << >>

\* C32: when a pass that adopted one or more frames between its pixels has
\* ended, the frame the painter holds is the last frame adopted, and after
\* a pass that adopted none it is the frame held before; the next pass, if
\* it finds the inbox empty, starts from the held frame, and every pixel
\* step that finds the inbox empty reads its pixel from the frame the pass
\* has.
C32_PassLeavesLastAdopted ==
    /\ [][pc = "finish" /\ pc' = "poll" =>
            image' = (IF ages.adopted # NoImage THEN ages.adopted ELSE image)]_vars
    /\ [][pc = "poll" /\ pc' # "poll" /\ inbox = << >> =>
            image' = image /\ local' = image]_vars
    /\ [][pc = "scan" /\ pass'.steps = pass.steps + 1 /\ inbox = << >> =>
            /\ local' = local
            /\ \E c \in todo :
                  /\ todo' = todo \ {c}
                  /\ sent' # NoSend =>
                        /\ sent'.x = PaintX(c[1]) /\ sent'.y = PaintY(c[2])
                        /\ sent'.color = Pixel(local, c[1], c[2])]_vars

\* A pass over a slice with pixels adopted a frame in one of its pixel steps
\* and has ended with its flush: the painter holds that frame, and the
\* inbox is empty for the pass that comes next.
C32_Witness ==
    /\ pc = "poll" /\ calls = <<Call("flush_pixels", TRUE)>>
    /\ area.w > 0 /\ pass.steps = area.w * area.h
    /\ ages.adopted # NoImage /\ image = ages.adopted /\ ages.image = 0
    /\ inbox = << >>

\* C33: a painter thread never holds more than one transport. It holds none
\* while it sleeps in the backoff and when it is about to connect; it gets
\* one only from the connect, while it holds none; and the step that takes
\* the thread to the backoff with a TCP transport drops that transport, the
\* QUIT being the last thing handed to its stream.
C33_OneTransportAtATime ==
    /\ [](pc \in {"backoff", "connect"} => client = NoClient)
    /\ [][client' # NoClient /\ client'.kind # client.kind =>
            pc = "connect" /\ client = NoClient]_vars
    /\ [][pc # "backoff" /\ pc' = "backoff" /\ client.kind = "tcp" =>
            /\ client' = NoClient
            /\ out' # << >> /\ out'[Len(out')] = QuitLine]_vars

\* A restart: the painter lost its TCP transport while it held a frame, the
\* sleep is over and the next connection is not opened yet.
C33_Witness ==
    /\ pc = "connect" /\ hadFrame /\ cfg.client_type = "TextTcp"
    /\ client = NoClient

\* C35: with exactly one loaded image the ticks of the ImageManager call
\* update_image exactly once: the first tick sends the image, no step after
\* it puts a frame into the inbox or changes the ImageManager; with no image
\* loaded no tick ever calls update_image, and the painter never gets a
\* frame.
C35_OneImageSentOnce ==
    /\ [][~cfg.pipeline /\ cfg.image_count = 1 /\ Len(inbox') > Len(inbox) =>
            ~first /\ first' /\ inbox' = Append(inbox, 0)]_vars
    /\ [](~cfg.pipeline /\ cfg.image_count = 1 /\ ~first =>
            ENABLED (Tick /\ first' /\ inbox' = <<0>>))
    /\ [][~cfg.pipeline /\ cfg.image_count = 1 /\ first =>
            first' /\ index' = index /\ Len(inbox') <= Len(inbox)]_vars
    /\ [](~cfg.pipeline /\ cfg.image_count = 0 =>
            inbox = << >> /\ ~first /\ index = 0 /\ image = NoImage)

\* The only image was sent by the first tick and the painter has painted a
\* pass from it; the ticks since then have put nothing into the inbox.
C35_Witness ==
    /\ ~cfg.pipeline /\ cfg.image_count = 1 /\ first
    /\ pc = "poll" /\ image = 0 /\ inbox = << >>
    /\ calls = <<Call("flush_pixels", TRUE)>>

(***************************************************************************)
(* Claims about write_hex and spawn_painters                               *)
(***************************************************************************)

\* C2: write_hex appends exactly 6 uppercase hex characters when the alpha
\* of the color is 0xFF and exactly 8 otherwise.
C2_HexLength ==
    hexColor # NoColor =>
        /\ Len(HexAppended) = (IF hexColor.a = 255 THEN 6 ELSE 8)
        /\ \A i \in 1..Len(HexAppended) :
              \E k \in 1..16 : HexAppended[i] = HexChars[k]

\* C3: the characters a write_hex call appends decode (alpha 0xFF when it is
\* elided) to the r, g, b, a of that call, whatever colors earlier calls on
\* the thread have left in the scratch buffer.
C3_HexDecodesOwnColor ==
    hexColor # NoColor => DecodeHex(HexAppended) = hexColor

\* The union of the pixels of the slices spawned so far.
SpawnedCells == UNION {Cells(painter_handles[k]) : k \in 1..Len(painter_handles)}

\* C4: for N > 0 painters and a draw size (W, H) with W >= N, slice i is
\* {x: i*floor(W/N), y: 0, w: floor(W/N), h: H}; the slices are pairwise
\* disjoint and their union is [0, floor(W/N)*N) x [0, H), so the columns of
\* the right-edge remainder belong to no painter.
C4_SlicesTile ==
    (SpawnDone /\ painter_count > 0 /\ size[1] >= painter_count) =>
        LET W == size[1]
            H == size[2]
            N == painter_count
            q == W \div N
        IN  /\ Len(painter_handles) = N
            /\ \A i \in 0..(N - 1) : painter_handles[i + 1] = Rect(i * q, 0, q, H)
            /\ \A i, j \in 1..N :
                  i # j => Cells(painter_handles[i]) \cap Cells(painter_handles[j]) = {}
            /\ SpawnedCells = {c \in (0..(MaxWidth + 1)) \X (0..(MaxHeight + 1)) :
                                  c[1] < q * N /\ c[2] < H}

\* C4's case: several painters, a width they do not divide, all spawned.
C4_Witness ==
    /\ SpawnDone /\ painter_count >= 2 /\ size[1] >= painter_count
    /\ size[1] % painter_count # 0 /\ size[2] > 0

(***************************************************************************)
(* icmp.rs and Pingv6Client of client.rs. A behaviour is either that of a  *)
(* Pingv6Client, whose send_pixel builds and sends one Icmp value per      *)
(* pixel, or that of Icmp values driven through their own interface.       *)
(***************************************************************************)

MaxSends == 2     \* the send calls made on one Icmp value
MaxPings == 3     \* the send_pixel calls made on one Pingv6Client

ICMP_HEADER_SIZE == 8
ECHO_REQUEST_V4 == 8
ECHO_REQUEST_V6 == 128
ECHO_REPLY_V4 == 0
ECHO_REPLY_V6 == 129
PING_ID == 26726  \* Pingv6Client::ID, 0x6866

Identifiers == {0, PING_ID}
Payloads == {<< >>, <<255, 255>>, <<18, 52, 86>>}
\* A send call made once, or made many times in a row: enough of them to
\* take the u16 sequence number to its wrap.
Repeats == {1, 65535}
Prefixes == {<<0, 0, 0, 0>>, <<8193, 3512, 0, 1>>}
PingCoords == {0, 65535}
PingColors == [r : {18, 255}, g : {52}, b : {0, 86}, a : {0, 255}]

NoIcmp == [none |-> TRUE]
NoPacket == [none |-> TRUE]
NoPing == [none |-> TRUE]

\* Icmp::new
IcmpNew(target, identifier, direction) ==
    [direction |-> direction, identifier |-> identifier, target |-> target,
     packet |-> [i \in 1..ICMP_HEADER_SIZE |-> 0], payload |-> << >>,
     current_sequence_number |-> 0]

\* Icmp::checksum, `part`: the 16-bit word of chunk k, a last odd byte being
\* the high byte.
ChunkWord(packet, k) ==
    ((packet[2 * k - 1] * 256) % U16)
        + (IF 2 * k <= Len(packet) THEN packet[2 * k] ELSE 0)

\* Icmp::checksum, the first loop: the u32 sum of the chunks 1..k. It
\* stays below 2^32 for every packet shorter than 128 KiB.
RECURSIVE ChunkSum(_, _)
ChunkSum(packet, k) ==
    IF k = 0 THEN 0 ELSE ChunkSum(packet, k - 1) + ChunkWord(packet, k)

\* Icmp::checksum, the second loop: fold the carries.
RECURSIVE FoldCarries(_)
FoldCarries(sum) ==
    IF sum \div U16 > 0 THEN FoldCarries((sum % U16) + (sum \div U16)) ELSE sum

\* Icmp::checksum: the packet with `!sum as u16` stored in bytes 2..3.
Checksum(packet) ==
    LET folded == FoldCarries(ChunkSum(packet, (Len(packet) + 1) \div 2))
        sum == (U16 - 1) - (folded % U16)
    IN  [packet EXCEPT ![3] = sum \div 256, ![4] = sum % 256]

\* packet[0] of Icmp::encode
EchoType(is_ipv4, direction) ==
    CASE is_ipv4 /\ direction = "Request" -> ECHO_REQUEST_V4
      [] is_ipv4 /\ direction = "Reply" -> ECHO_REPLY_V4
      [] ~is_ipv4 /\ direction = "Request" -> ECHO_REQUEST_V6
      [] ~is_ipv4 /\ direction = "Reply" -> ECHO_REPLY_V6

\* Icmp::encode: bytes 0, 1, 4..7 of the header are rewritten, bytes 2..3
\* are left as they are, the payload is appended, the checksum computed.
Encode(i) ==
    LET header == [k \in 1..ICMP_HEADER_SIZE |->
                     CASE k = 1 -> EchoType(i.target.is_ipv4, i.direction)
                       [] k = 2 -> 0
                       [] k = 5 -> i.identifier \div 256
                       [] k = 6 -> i.identifier % 256
                       [] k = 7 -> 0
                       [] k = 8 -> 0
                       [] OTHER -> i.packet[k]]
    IN  [i EXCEPT !.packet = Checksum(header \o i.payload)]

\* An update_seq that leaves the old checksum in bytes 2..3.
UpdateSeqKeepingChecksum(packet, seq) ==
    Checksum([packet EXCEPT ![7] = seq \div 256, ![8] = seq % 256])

\* Icmp::update_seq
UpdateSeq(packet, seq) ==
    Checksum([packet EXCEPT ![3] = 0, ![4] = 0,
                            ![7] = seq \div 256, ![8] = seq % 256])

\* Icmp::send when it returns Ok: the value after the call.
SendOk(i) ==
    LET e == Encode(i)
        seq == (i.current_sequence_number + 1) % U16
    IN  [e EXCEPT !.current_sequence_number = seq,
                  !.packet = UpdateSeq(e.packet, seq)]

\* The value after m > 0 more calls of send that all returned Ok.
AfterSends(i, m) ==
    LET e == Encode(i)
        seq == (i.current_sequence_number + m) % U16
    IN  [e EXCEPT !.current_sequence_number = seq,
                  !.packet = UpdateSeq(e.packet, seq)]

\* Pingv6Client::send_pixel, target_address with the color's alpha in it.
TargetAddressWithAlpha(prefix, x, y, color) ==
    prefix \o <<x, y, ((color.r * 256) % U16) + color.g,
                ((color.b * 256) % U16) + color.a>>

\* Pingv6Client::send_pixel, target_address
TargetAddress(prefix, x, y, color) ==
    prefix \o <<x, y, ((color.r * 256) % U16) + color.g, ((color.b * 256) % U16)>>

InitIcmpIdle ==
    /\ icmp = NoIcmp
    /\ icmpCall = "none"
    /\ icmpResult = "ok"
    /\ sendto = NoPacket
    /\ prevSeq = 0
    /\ sends = 0
    /\ target_network = <<0, 0, 0, 0>>
    /\ pingCall = NoPing
    /\ pingCount = 0

\* Pingv6Client::new
InitIcmp ==
    /\ icmp = NoIcmp
    /\ icmpCall = "none"
    /\ icmpResult = "ok"
    /\ sendto = NoPacket
    /\ prevSeq = 0
    /\ sends = 0
    /\ target_network \in Prefixes
    /\ pingCall = NoPing
    /\ pingCount = 0

\* Icmp::new
CallIcmpNew ==
    /\ pingCall = NoPing /\ pingCount = 0
    /\ \E is_ipv4 \in BOOLEAN, identifier \in Identifiers,
          direction \in {"Request", "Reply"} :
          icmp' = IcmpNew([is_ipv4 |-> is_ipv4, words |-> << >>],
                          identifier, direction)
    /\ icmpCall' = "new"
    /\ icmpResult' = "ok"
    /\ sendto' = NoPacket
    /\ sends' = 0
    /\ pingCall' = NoPing
    /\ UNCHANGED <<prevSeq, target_network, pingCount>>
    /\ UNCHANGED <<hexVars, sliceVars, painterVars, tcpVars, pxVars, startVars, fanVars, coordVars>>

\* Icmp::set_payload
CallSetPayload ==
    /\ icmp # NoIcmp /\ icmpCall # "send_pixel"
    /\ \E payload \in Payloads : icmp' = [icmp EXCEPT !.payload = payload]
    /\ icmpCall' = "set_payload"
    /\ icmpResult' = "ok"
    /\ sendto' = NoPacket
    /\ UNCHANGED <<prevSeq, sends, target_network, pingCall, pingCount>>
    /\ UNCHANGED <<hexVars, sliceVars, painterVars, tcpVars, pxVars, startVars, fanVars, coordVars>>

\* Icmp::send, called `repeat` times of which all but the last returned Ok;
\* the variables show the last of these calls.
CallSend ==
    /\ icmp # NoIcmp /\ icmpCall # "send_pixel"
    /\ sends < MaxSends
    /\ \E repeat \in Repeats :
        LET before == IF repeat = 1 THEN icmp ELSE AfterSends(icmp, repeat - 1)
            e == Encode(before)
        IN  /\ prevSeq' = before.current_sequence_number
            /\ \/ /\ icmpResult' = "ok"
                  /\ sendto' = [packet |-> e.packet, target |-> e.target]
                  /\ icmp' = SendOk(before)
               \/ \* Socket::new, set_tos or set_tclass_v6 returns Err
                  /\ icmpResult' = "err"
                  /\ sendto' = NoPacket
                  /\ icmp' = e
               \/ \* send_to returns Err
                  /\ icmpResult' = "err"
                  /\ sendto' = [packet |-> e.packet, target |-> e.target]
                  /\ icmp' = e
    /\ icmpCall' = "send"
    /\ sends' = sends + 1
    /\ UNCHANGED <<target_network, pingCall, pingCount>>
    /\ UNCHANGED <<hexVars, sliceVars, painterVars, tcpVars, pxVars, startVars, fanVars, coordVars>>

\* Pingv6Client::send_pixel: Icmp::new, send, and the Icmp value is dropped.
PingSendPixel ==
    /\ icmp = NoIcmp \/ icmpCall = "send_pixel"
    /\ pingCount < MaxPings
    /\ \E x \in PingCoords, y \in PingCoords, color \in PingColors :
        LET new == IcmpNew([is_ipv4 |-> FALSE,
                            words |-> TargetAddress(target_network, x, y, color)],
                           PING_ID, "Request")
            e == Encode(new)
        IN  /\ pingCall' = [x |-> x, y |-> y, color |-> color]
            /\ prevSeq' = 0
            /\ \/ /\ icmpResult' = "ok"
                  /\ sendto' = [packet |-> e.packet, target |-> e.target]
                  /\ icmp' = SendOk(new)
                  /\ pingCount' = pingCount + 1
               \/ /\ icmpResult' = "err"
                  /\ sendto' = NoPacket
                  /\ icmp' = e
                  /\ UNCHANGED pingCount
               \/ /\ icmpResult' = "err"
                  /\ sendto' = [packet |-> e.packet, target |-> e.target]
                  /\ icmp' = e
                  /\ pingCount' = pingCount + 1
    /\ icmpCall' = "send_pixel"
    /\ sends' = 1
    /\ UNCHANGED target_network
    /\ UNCHANGED <<hexVars, sliceVars, painterVars, tcpVars, pxVars, startVars, fanVars, coordVars>>

NextIcmp == CallIcmpNew \/ CallSetPayload \/ CallSend \/ PingSendPixel

(***************************************************************************)
(* Claims about the ICMPv6 transport                                       *)
(***************************************************************************)

\* The fields a receiver reads from a packet.
StoredChecksum(packet) == 256 * packet[3] + packet[4]
WireSeq(packet) == 256 * packet[7] + packet[8]
WireIdentifier(packet) == 256 * packet[5] + packet[6]
ZeroChecksum(packet) == [packet EXCEPT ![3] = 0, ![4] = 0]

\* RFC 1071: the complement of the one's complement sum of the 16-bit words
\* of the data, a last odd byte padded with a zero byte on the right.
RECURSIVE WordTotal(_, _)
WordTotal(data, k) ==
    IF k = 0 THEN 0
    ELSE WordTotal(data, k - 1) + 256 * data[2 * k - 1]
            + (IF 2 * k <= Len(data) THEN data[2 * k] ELSE 0)
Rfc1071(data) ==
    LET total == WordTotal(data, (Len(data) + 1) \div 2)
        onesSum == IF total = 0 THEN 0 ELSE ((total - 1) % 65535) + 1
    IN  65535 - onesSum

\* C13: the k-th packet a Pingv6Client hands to sendto carries the sequence
\* number (k - 1) mod 2^16, the first one 0.
C13_WireSequenceCounts ==
    (icmpCall = "send_pixel" /\ sendto # NoPacket)
        => WireSeq(sendto.packet) = (pingCount - 1) % U16

\* C14: after a send that returned Ok, bytes 2..3 of the packet hold the
\* RFC 1071 checksum of the packet with these bytes zeroed, whatever the
\* length of the payload, and current_sequence_number is one more than
\* before the send, modulo 2^16; the checksum of eight zero bytes is 0xFFFF.
C14_ChecksumAndSequenceAfterSend ==
    (icmpCall \in {"send", "send_pixel"} /\ icmpResult = "ok") =>
        /\ StoredChecksum(icmp.packet) = Rfc1071(ZeroChecksum(icmp.packet))
        /\ icmp.current_sequence_number = (prevSeq + 1) % U16
        /\ ZeroChecksum(icmp.packet) = [k \in 1..ICMP_HEADER_SIZE |-> 0]
              => StoredChecksum(icmp.packet) = 65535

\* C14's case: a send with a payload of odd length has returned Ok and has
\* taken the sequence number over its wrap.
C14_Witness ==
    /\ icmpCall = "send" /\ icmpResult = "ok"
    /\ Len(icmp.packet) % 2 = 1
    /\ prevSeq = 65535 /\ icmp.current_sequence_number = 0

\* C15: every packet handed to sendto, by the first send of an Icmp value
\* and by every later one, carries in bytes 2..3 the RFC 1071 checksum of
\* the packet with these bytes zeroed.
C15_SentChecksumValid ==
    sendto # NoPacket =>
        StoredChecksum(sendto.packet) = Rfc1071(ZeroChecksum(sendto.packet))

\* C16: Pingv6Client::send_pixel hands sendto an ICMPv6 echo request with
\* identifier 0x6866 and no payload, for the address whose words are the
\* four of the prefix, x, y, (r << 8) | g and b << 8; the alpha is not in it.
C16_PingAddressesThePixel ==
    (icmpCall = "send_pixel" /\ sendto # NoPacket) =>
        /\ ~sendto.target.is_ipv4
        /\ sendto.target.words =
              target_network \o <<pingCall.x, pingCall.y,
                                  256 * pingCall.color.r + pingCall.color.g,
                                  256 * pingCall.color.b>>
        /\ sendto.packet[1] = ECHO_REQUEST_V6
        /\ WireIdentifier(sendto.packet) = 26726
        /\ Len(sendto.packet) = ICMP_HEADER_SIZE

\* C16's case: a pixel with a translucent color and a coordinate of 65535
\* has been sent to a prefix that is not all zero.
C16_Witness ==
    /\ icmpCall = "send_pixel" /\ icmpResult = "ok" /\ sendto # NoPacket
    /\ pingCall.color.a # 0 /\ pingCall.color.b # 0 /\ pingCall.x = 65535
    /\ target_network # <<0, 0, 0, 0>>

(***************************************************************************)
(* main.rs: start, from gather_host_facts to Canvas::new                   *)
(***************************************************************************)

NoArg == -1
NoReply == [none |-> TRUE]
NoSize == [none |-> TRUE]

InitStartIdle ==
    /\ startPc = "idle"
    /\ width = NoArg
    /\ height = NoArg
    /\ reply = NoReply
    /\ sizeResult = "none"
    /\ screen_size = NoSize
    /\ draw_size = NoSize

(***************************************************************************)
(* client.rs: write_pixel_noformat, with the tables of build.rs            *)
(***************************************************************************)

DEC_TABLE_MAX == 5000   \* build.rs: `for value in 0..=5000`

DecChars == <<"0", "1", "2", "3", "4", "5", "6", "7", "8", "9">>

\* build.rs: format!("\"{value}\","), the decimal text of an entry.
RECURSIVE HEX_TO_STR_16(_)
HEX_TO_STR_16(value) ==
    IF value < 10 THEN <<DecChars[value + 1]>>
    ELSE HEX_TO_STR_16(value \div 10) \o <<DecChars[(value % 10) + 1]>>

PxCoords == {0, 10, 20, DEC_TABLE_MAX, DEC_TABLE_MAX + 1, U16 - 1}
PxColors == [r : {18}, g : {52}, b : {86, 255}, a : {0, 128, 255}]

NoPx == [none |-> TRUE]

InitPxIdle ==
    /\ pxBuffer = << >>
    /\ pxCall = NoPx
    /\ pxResult = "idle"

\* A thread that has not formatted a pixel yet.
InitPx ==
    /\ pxBuffer = << >>
    /\ pxCall = NoPx
    /\ pxResult = "ok"

\* write_pixel_noformat(buffer, x, y, color) on an empty buffer. Indexing
\* HEX_TO_STR_16 past its end panics, with what was pushed before left in
\* the buffer.
WritePixelNoformat ==
    /\ pxResult = "ok"
    /\ \E x \in PxCoords, y \in PxCoords, color \in PxColors :
        /\ pxCall' = [x |-> x, y |-> y, color |-> color]
        /\ \/ /\ x <= DEC_TABLE_MAX /\ y <= DEC_TABLE_MAX
              /\ pxBuffer' = <<"P", "X", " ">> \o HEX_TO_STR_16(x) \o <<" ">>
                                \o HEX_TO_STR_16(y) \o <<" ">>
                                \o WriteHexAppended(STRING_BUFFER, color)
                                \o <<"\n">>
              /\ STRING_BUFFER' = WriteHexBuffer(STRING_BUFFER, color)
              /\ pxResult' = "ok"
           \/ /\ x > DEC_TABLE_MAX
              /\ pxBuffer' = <<"P", "X", " ">>
              /\ pxResult' = "panic"
              /\ UNCHANGED STRING_BUFFER
           \/ /\ x <= DEC_TABLE_MAX /\ y > DEC_TABLE_MAX
              /\ pxBuffer' = <<"P", "X", " ">> \o HEX_TO_STR_16(x) \o <<" ">>
              /\ pxResult' = "panic"
              /\ UNCHANGED STRING_BUFFER
    /\ UNCHANGED <<hexSink, hexBefore, hexColor>>
    /\ UNCHANGED <<sliceVars, painterVars, tcpVars, icmpVars, startVars, fanVars, coordVars>>

\* The decimal text of n: its digits, the most significant first, none of
\* them a leading zero.
NumDigits(n) == IF n < 10 THEN 1 ELSE IF n < 100 THEN 2 ELSE IF n < 1000 THEN 3
                ELSE IF n < 10000 THEN 4 ELSE 5
Pow10(k) == CASE k = 0 -> 1 [] k = 1 -> 10 [] k = 2 -> 100 [] k = 3 -> 1000
              [] k = 4 -> 10000
DecimalText(n) ==
    [i \in 1..NumDigits(n) |-> DecChars[((n \div Pow10(NumDigits(n) - i)) % 10) + 1]]

\* RRGGBB for alpha 0xFF, RRGGBBAA otherwise.
HexText(color) ==
    HEX_TO_STR_8(color.r) \o HEX_TO_STR_8(color.g) \o HEX_TO_STR_8(color.b)
        \o (IF color.a = 255 THEN << >> ELSE HEX_TO_STR_8(color.a))

\* C17: for x and y in 0..=5000 the line the TCP transport formats for a
\* pixel is "PX ", decimal x, " ", decimal y, " ", the hex text of the color
\* (RRGGBB for alpha 0xFF, RRGGBBAA otherwise), "\n".
C17_PxLineEncoding ==
    (pxCall # NoPx /\ pxCall.x <= 5000 /\ pxCall.y <= 5000) =>
        pxBuffer = <<"P", "X", " ">> \o DecimalText(pxCall.x) \o <<" ">>
                      \o DecimalText(pxCall.y) \o <<" ">>
                      \o HexText(pxCall.color) \o <<"\n">>

\* C22: for a coordinate above the ceiling of the decimal table
\* (5001..=65535) the call still returns, and what it formatted is a PX line
\* that carries the decimal text of both coordinates.
C22_LargeCoordinateFormats ==
    (pxCall # NoPx /\ (pxCall.x > DEC_TABLE_MAX \/ pxCall.y > DEC_TABLE_MAX)) =>
        LET head == <<"P", "X", " ">> \o DecimalText(pxCall.x) \o <<" ">>
                        \o DecimalText(pxCall.y) \o <<" ">>
        IN  /\ pxResult = "ok"
            /\ Len(pxBuffer) > Len(head)
            /\ SubSeq(pxBuffer, 1, Len(head)) = head
            /\ pxBuffer[Len(pxBuffer)] = "\n"

\* The pieces the reply lines of the model are built from.
Leads == {<< >>, <<" ">>}
Keywords == {<<"S", "I", "Z", "E">>, <<"s", "i", "Z", "e">>, <<"S", "I", "Z">>}
Seps == {<<" ">>, << >>}
DigitStrings == {<<"0">>, <<"8", "0", "0">>, <<"0", "0", "7">>,
                 <<"6", "5", "5", "3", "5">>, <<"6", "5", "5", "3", "6">>,
                 <<"9", "9", "9", "9", "9", "9", "9", "9", "9", "9", "9">>}
Ends == {<<"\n">>, << >>, <<" ", "!", "\n">>}

\* What read_line may return: nothing at the end of the stream, or a line.
Replies ==
    {<< >>} \cup
    {lead \o kw \o s1 \o w \o s2 \o h \o end :
        lead \in Leads, kw \in Keywords, s1 \in Seps, w \in DigitStrings,
        s2 \in Seps, h \in DigitStrings, end \in Ends}

ArgWidths == {NoArg, 640}
ArgHeights == {NoArg, 480}

\* The character classes \s and [[:digit:]] of PIX_SERVER_SIZE_REGEX, and
\* the folding of (?i) for the letters of "SIZE".
Whitespace == {" ", "\t", "\n", "\r"}
IsDigit(ch) == \E i \in 1..10 : DecChars[i] = ch
DigitValue(ch) == (CHOOSE i \in 1..10 : DecChars[i] = ch) - 1
FoldCase(ch) ==
    CASE ch = "s" -> "S" [] ch = "i" -> "I" [] ch = "z" -> "Z" [] ch = "e" -> "E"
      [] OTHER -> ch

\* The first position from i on whose character is not whitespace, or not
\* a digit: where a greedy \s* or [[:digit:]]* started at i ends.
RECURSIVE SkipSpace(_, _)
SkipSpace(line, i) ==
    IF i <= Len(line) /\ line[i] \in Whitespace THEN SkipSpace(line, i + 1) ELSE i
RECURSIVE SkipDigits(_, _)
SkipDigits(line, i) ==
    IF i <= Len(line) /\ IsDigit(line[i]) THEN SkipDigits(line, i + 1) ELSE i

NoMatch == [none |-> TRUE]

\* re.captures(&data) for ^(?i)\s*SIZE\s+([[:digit:]]+)\s+([[:digit:]]+)\s*$ :
\* the two captured digit strings, or NoMatch.
Captures(line) ==
    LET k0 == SkipSpace(line, 1)
        k1 == k0 + 4
        w0 == SkipSpace(line, k1)
        w1 == SkipDigits(line, w0)
        h0 == SkipSpace(line, w1)
        h1 == SkipDigits(line, h0)
        end == SkipSpace(line, h1)
    IN  IF /\ k1 - 1 <= Len(line)
           /\ [i \in 1..4 |-> FoldCase(line[k0 + i - 1])] = <<"S", "I", "Z", "E">>
           /\ w0 > k1 /\ w1 > w0 /\ h0 > w1 /\ h1 > h0
           /\ end = Len(line) + 1
        THEN [w |-> SubSeq(line, w0, w1 - 1), h |-> SubSeq(line, h0, h1 - 1)]
        ELSE NoMatch

\* str::parse::<u16> of a string of digits: the value, or -1 for the Err
\* of a value that does not fit 16 bits.
RECURSIVE ParseU16(_)
ParseU16(digits) ==
    IF digits = << >> THEN 0
    ELSE LET front == ParseU16(SubSeq(digits, 1, Len(digits) - 1))
             value == 10 * front + DigitValue(digits[Len(digits)])
         IN  IF front = -1 \/ value >= U16 THEN -1 ELSE value

\* TextTcpClient::read_screen_size once write_read_command has returned the
\* line: Ok((w, h)), Err, or the panic of `expect` on a failed parse.
ReadScreenSize(line) ==
    LET m == Captures(line)
    IN  IF m = NoMatch THEN [kind |-> "err"]
        ELSE IF ParseU16(m.w) = -1 \/ ParseU16(m.h) = -1 THEN [kind |-> "panic"]
        ELSE [kind |-> "ok", size |-> <<ParseU16(m.w), ParseU16(m.h)>>]

\* ArgHandler::parse has run.
InitStart ==
    /\ startPc = "gather"
    /\ width \in ArgWidths
    /\ height \in ArgHeights
    /\ reply = NoReply
    /\ sizeResult = "none"
    /\ screen_size = NoSize
    /\ draw_size = NoSize

\* `let screen_size = gather_host_facts(arg_handler).ok();`
GatherHostFacts ==
    /\ startPc = "gather"
    /\ \/ \* connect, or the write or the read of write_read_command, fails
          /\ reply' = NoReply
          /\ sizeResult' = "err"
          /\ screen_size' = NoSize
          /\ startPc' = "size"
       \/ \E line \in Replies :
            LET r == ReadScreenSize(line)
            IN  /\ reply' = line
                /\ sizeResult' = r.kind
                /\ screen_size' = IF r.kind = "ok" THEN r.size ELSE NoSize
                /\ startPc' = IF r.kind = "panic" THEN "panicked" ELSE "size"
    /\ UNCHANGED <<width, height, draw_size>>
    /\ UNCHANGED <<hexVars, sliceVars, painterVars, tcpVars, icmpVars, pxVars, fanVars, coordVars>>

\* ArgHandler::size(def): `def.expect(..)` is the argument of unwrap_or and
\* so is evaluated whether or not the width and height are given. NoSize
\* stands for its panic.
Size(w, h, def) ==
    IF def = NoSize THEN NoSize
    ELSE <<IF w # NoArg THEN w ELSE def[1], IF h # NoArg THEN h ELSE def[2]>>

\* `let size = arg_handler.size(screen_size);` and Canvas::new(.., size, ..)
DetermineSize ==
    /\ startPc = "size"
    /\ draw_size' = Size(width, height, screen_size)
    /\ startPc' = IF Size(width, height, screen_size) = NoSize
                  THEN "panicked" ELSE "canvas"
    /\ UNCHANGED <<width, height, reply, sizeResult, screen_size>>
    /\ UNCHANGED <<hexVars, sliceVars, painterVars, tcpVars, icmpVars, pxVars, fanVars, coordVars>>

NextStart == GatherHostFacts \/ DetermineSize

\* C18: whatever line the server replies, read_screen_size returns the
\* parsed size or an error value: it ends in no other way.
C18_SizeReplyGivesResult == reply # NoReply => sizeResult \in {"ok", "err"}

\* C19: when the SIZE negotiation has failed and the user gave both a width
\* and a height, start goes on and builds the canvas with that size.
C19_UserSizeSurvivesFailedNegotiation ==
    (sizeResult = "err" /\ width # NoArg /\ height # NoArg
        /\ startPc \notin {"gather", "size"})
    => (startPc = "canvas" /\ draw_size = <<width, height>>)

(***************************************************************************)
(* The Canvas with all its painters: canvas.rs Canvas::new, spawn_painter, *)
(* run_painter and update_image; every thread runs Painter::work over its  *)
(* own slice, transport and channel. TCP backend, scanline painting.       *)
(***************************************************************************)

MaxFan == 2       \* the painters of the canvas

FanIds == 0..(MaxFan - 1)

\* Canvas::new: the flags the threads copy.
Canvases == [should_buffer : BOOLEAN, use_offset_command : BOOLEAN]

\* spawn_painters: painter p of MaxFan, on a canvas MaxFan * AreaW wide.
SliceOf(p) == PainterArea(p, MaxFan * AreaW, AreaH, MaxFan)
CoordsOf(p) == (0..(SliceOf(p).w - 1)) \X (0..(SliceOf(p).h - 1))

\* canvas.rs: `if use_offset_command { (0, 0) } else { offset }`, the
\* offset run_painter hands to the Painter.
PainterOffset(c) == IF c.use_offset_command THEN <<0, 0>> ELSE offset

\* TextTcpClient::connect, what it writes to the stream it has opened:
\* `Ok(Self::new(create_stream(host, addr)?, flush, should_buffer))`.
ConnectOut(c) == << >>

NoStep == [kind |-> "none"]

\* A thread at the top of its loop: no transport, no Painter.
Spawned ==
    [pc |-> "connect", client |-> NoClient, image |-> NoImage, local |-> NoImage,
     updated_image |-> FALSE, todo |-> {}, greeted |-> << >>]

\* Painter::new(Some(client), area, offset, None, slowpaint) in run_painter;
\* greeted is what connect wrote on this connection.
NewPainter(c) ==
    [Spawned EXCEPT !.pc = "recv",
                    !.client = TextTcpClient(TRUE, c.should_buffer),
                    !.greeted = ConnectOut(c)]

\* A failure that takes the Painter of every thread with it.
WorkFailedAll(ths, p) == [q \in DOMAIN ths |-> [Spawned EXCEPT !.pc = "backoff"]]

\* work returned Err in thread p: run_painter breaks and returns, its
\* Painter is dropped with the transport and the frame, the thread sleeps.
WorkFailed(ths, p) == [ths EXCEPT ![p] = [Spawned EXCEPT !.pc = "backoff"]]

\* Handle::update_image: the frame is sent into the painter's channel.
HandleUpdateImage(ch, img) == Append(ch, img)

\* update_image that reaches the first handle only.
FanOutFirstOnly(chs, img) ==
    [p \in DOMAIN chs |-> IF p = 0 THEN HandleUpdateImage(chs[p], img) ELSE chs[p]]

\* Canvas::update_image: `for handle in &self.painter_handles`.
FanOut(chs, img) == [p \in DOMAIN chs |-> HandleUpdateImage(chs[p], img)]

InitFanIdle ==
    /\ canvas = [should_buffer |-> FALSE, use_offset_command |-> FALSE]
    /\ threads = << >>
    /\ channels = << >>
    /\ lastStep = NoStep

\* Canvas::new has returned: every thread spawned, every channel empty.
InitFan ==
    /\ canvas \in Canvases
    /\ threads = [p \in FanIds |-> Spawned]
    /\ channels = [p \in FanIds |-> << >>]
    /\ lastStep = NoStep

FanRest == UNCHANGED <<hexVars, sliceVars, painterVars, tcpVars, icmpVars, pxVars,
                       startVars, coordVars>>

FanConnect(p) ==
    /\ threads[p].pc = "connect"
    /\ \/ /\ threads' = [threads EXCEPT ![p] = NewPainter(canvas)]
          /\ lastStep' = [kind |-> "connect", p |-> p, ok |-> TRUE]
       \/ \* TextTcpClient::connect returned Err
          /\ threads' = [threads EXCEPT ![p] = [Spawned EXCEPT !.pc = "backoff"]]
          /\ lastStep' = [kind |-> "connect", p |-> p, ok |-> FALSE]
    /\ UNCHANGED <<canvas, channels>>
    /\ FanRest

FanRecvFirst(p) ==
    /\ threads[p].pc = "recv"
    /\ channels[p] # << >>
    /\ threads' = [threads EXCEPT ![p] =
                     [@ EXCEPT !.image = Head(channels[p]),
                               !.client = ClearBuffers(@),
                               !.pc = "poll"]]
    /\ channels' = [channels EXCEPT ![p] = Tail(@)]
    /\ lastStep' = [kind |-> "recv", p |-> p, ok |-> TRUE]
    /\ UNCHANGED canvas
    /\ FanRest

FanPoll(p) ==
    /\ threads[p].pc = "poll"
    /\ LET t == threads[p]
           got == channels[p] # << >>
           img == IF got THEN Head(channels[p]) ELSE t.image
       IN  /\ threads' = [threads EXCEPT ![p] =
                 [t EXCEPT !.image = img,
                           !.client = IF got THEN ClearBuffers(@) ELSE @,
                           !.local = img,
                           !.updated_image = FALSE,
                           !.todo = CoordsOf(p),
                           !.pc = AfterPixel(CoordsOf(p))]]
           /\ channels' = [channels EXCEPT ![p] = IF got THEN Tail(@) ELSE @]
    /\ lastStep' = [kind |-> "poll", p |-> p, ok |-> TRUE]
    /\ UNCHANGED canvas
    /\ FanRest

FanScanPixel(p) ==
    /\ threads[p].pc = "scan"
    /\ LET t == threads[p]
           c == NextScan(t.todo)
           got == channels[p] # << >>
           img == IF got THEN Head(channels[p]) ELSE t.local
           color == Pixel(img, c[1], c[2])
           off == PainterOffset(canvas)
           call == [x |-> (c[1] + SliceOf(p).x + off[1]) % U16,
                    y |-> (c[2] + SliceOf(p).y + off[2]) % U16,
                    color |-> color]
           rest == t.todo \ {c}
           moved == [t EXCEPT !.local = img,
                              !.updated_image = (@ \/ got),
                              !.todo = rest,
                              !.pc = AfterPixel(rest)]
       IN  /\ channels' = [channels EXCEPT ![p] = IF got THEN Tail(@) ELSE @]
           /\ \/ /\ color.a = 0
                 /\ threads' = [threads EXCEPT ![p] = moved]
                 /\ lastStep' = [kind |-> "pixel", p |-> p, ok |-> TRUE,
                                 coord |-> c, sent |-> NoSend]
              \/ /\ color.a # 0
                 /\ threads' = [threads EXCEPT ![p] =
                       [moved EXCEPT !.client = SendPixel(@, call.x, call.y, color)]]
                 /\ lastStep' = [kind |-> "pixel", p |-> p, ok |-> TRUE,
                                 coord |-> c, sent |-> call]
              \/ /\ color.a # 0
                 /\ SendPixelCanFail(t.client)
                 /\ threads' = WorkFailed(threads, p)
                 /\ lastStep' = [kind |-> "pixel", p |-> p, ok |-> FALSE,
                                 coord |-> c, sent |-> call]
    /\ UNCHANGED canvas
    /\ FanRest

FanFinish(p) ==
    /\ threads[p].pc = "finish"
    /\ LET t == threads[p]
           c0 == IF t.updated_image THEN ClearBuffers(t.client) ELSE t.client
       IN  \/ /\ threads' = [threads EXCEPT ![p] =
                    [t EXCEPT !.image = (IF t.updated_image THEN t.local ELSE @),
                              !.client = FlushPixels(c0),
                              !.local = NoImage,
                              !.updated_image = FALSE,
                              !.todo = {},
                              !.pc = "poll"]]
              /\ lastStep' = [kind |-> "finish", p |-> p, ok |-> TRUE]
           \/ /\ FlushPixelsCanFail(c0)
              /\ threads' = WorkFailed(threads, p)
              /\ lastStep' = [kind |-> "finish", p |-> p, ok |-> FALSE]
    /\ UNCHANGED <<canvas, channels>>
    /\ FanRest

FanBackoff(p) ==
    /\ threads[p].pc = "backoff"
    /\ threads' = [threads EXCEPT ![p] = [@ EXCEPT !.pc = AfterBackoff]]
    /\ lastStep' = [kind |-> "backoff", p |-> p, ok |-> TRUE]
    /\ UNCHANGED <<canvas, channels>>
    /\ FanRest

FanPainterStep(p) ==
    FanConnect(p) \/ FanRecvFirst(p) \/ FanPoll(p) \/ FanScanPixel(p)
        \/ FanFinish(p) \/ FanBackoff(p)

\* The frame source calls Canvas::update_image.
FanUpdateImage ==
    /\ threads # << >>
    /\ \A p \in FanIds : Len(channels[p]) < MaxInbox
    /\ \E img \in ImageIds :
        /\ channels' = FanOut(channels, img)
        /\ lastStep' = [kind |-> "update_image", img |-> img]
    /\ UNCHANGED <<canvas, threads>>
    /\ FanRest

NextCanvas == FanUpdateImage \/ \E p \in FanIds : FanPainterStep(p)

(***************************************************************************)
(* Claims about the canvas and its painters                                *)
(***************************************************************************)

PainterKinds == {"connect", "recv", "poll", "pixel", "finish", "backoff"}

\* C23: every update_image call appends the frame once to the channel of
\* every painter (so each channel holds the frames in call order; only the
\* receives of its own painter take frames, from its head), and the call
\* can be made whatever the painters are doing.
C23_FanOutOncePerInbox ==
    /\ [][lastStep'.kind = "update_image" =>
            \A p \in FanIds : channels'[p] = Append(channels[p], lastStep'.img)]_vars
    /\ [][lastStep'.kind \in PainterKinds =>
            \A p \in FanIds :
                \/ channels'[p] = channels[p]
                \/ /\ p = lastStep'.p /\ channels[p] # << >>
                   /\ channels'[p] = Tail(channels[p])]_vars
    /\ []((threads # << >> /\ \A p \in FanIds : Len(channels[p]) < MaxInbox)
            => ENABLED FanUpdateImage)

\* An update_image call made while one painter waits for its first frame,
\* another sleeps in its backoff, and frames are still queued.
C23_Witness ==
    /\ lastStep.kind = "update_image"
    /\ threads[0].pc = "recv" /\ threads[1].pc = "backoff"
    /\ Len(channels[0]) = 2 /\ Len(channels[1]) = 2
    /\ channels[0][1] # channels[0][2]

\* "OFFSET x y\n"
OffsetLine(x, y) == [cmd |-> "OFFSET", x |-> x, y |-> y]

\* The origin the server applies to the PX lines of a connection: (0,0)
\* until an OFFSET line moves it.
RECURSIVE ServerOrigin(_)
ServerOrigin(lines) ==
    IF lines = << >> THEN <<0, 0>>
    ELSE IF lines[Len(lines)].cmd = "OFFSET"
         THEN <<lines[Len(lines)].x, lines[Len(lines)].y>>
         ELSE ServerOrigin(SubSeq(lines, 1, Len(lines) - 1))

\* C24: with the OFFSET command in use every connection starts with one
\* "OFFSET ox oy" line and the painter adds (0,0); without it no OFFSET line
\* is sent and the painter adds (ox,oy); either way pixel (x,y) of a slice
\* lands on (x + slice.x + ox, y + slice.y + oy) of the server.
C24_OffsetEitherWay ==
    /\ \A p \in DOMAIN threads :
           threads[p].client # NoClient =>
               threads[p].greeted =
                   IF canvas.use_offset_command
                   THEN <<OffsetLine(offset[1], offset[2])>> ELSE << >>
    /\ PainterOffset(canvas) = IF canvas.use_offset_command THEN <<0, 0>> ELSE offset
    /\ (lastStep.kind = "pixel" /\ lastStep.ok /\ lastStep.sent # NoSend) =>
           LET origin == ServerOrigin(threads[lastStep.p].greeted)
               slice == SliceOf(lastStep.p)
           IN  /\ lastStep.sent.x + origin[1] = lastStep.coord[1] + slice.x + offset[1]
               /\ lastStep.sent.y + origin[2] = lastStep.coord[2] + slice.y + offset[2]

\* C25: a step of one painter, its transport error, restart and backoff
\* included, leaves the transport, frame, scan position and channel of
\* every other painter as they were, and a painter in the middle of its
\* pass can always take its next pixel step.
C25_PaintersIsolated ==
    /\ [][lastStep'.kind \in PainterKinds =>
            \A q \in FanIds \ {lastStep'.p} :
                threads'[q] = threads[q] /\ channels'[q] = channels[q]]_vars
    /\ [](\A q \in DOMAIN threads : threads[q].pc = "scan" => ENABLED FanScanPixel(q))

\* Painter 0 has just lost its transport while painter 1 is in the middle
\* of a pass over a frame, with its batch begun and a frame queued.
C25_Witness ==
    /\ lastStep.kind \in {"pixel", "finish"} /\ ~lastStep.ok /\ lastStep.p = 0
    /\ threads[0].pc = "backoff"
    /\ threads[1].pc = "scan" /\ threads[1].todo # CoordsOf(1)
    /\ threads[1].client.buffer # << >>
    /\ channels[1] # << >>

(***************************************************************************)
(* The coordinates of a painter: painter.rs, the arguments of send_pixel,  *)
(* for the slices of canvas.rs and the draw offset of the command line     *)
(***************************************************************************)

\* Draw sizes, painter counts and offsets, up to the largest u16.
CoordWidths == {2, 4, U16 - 1}
CoordHeights == {1, U16 - 1}
CoordCounts == {1, 2}
CoordOffsets == {0, 1, U16 - 1}

Geometries ==
    [w : CoordWidths, h : CoordHeights, count : CoordCounts,
     offset : CoordOffsets \X CoordOffsets,
     use_offset_command : BOOLEAN, overflow_checks : BOOLEAN]

NoPaint == [none |-> TRUE]
NoCoord == << >>

\* `a + b` on u16: the sum when it fits in 16 bits; when it does not, a
\* panic in a build with overflow checks (the debug profile) and the sum
\* modulo 2^16 in a build without them (the release profile).
AddU16(a, b, checks) ==
    IF a + b < U16 THEN [ok |-> TRUE, v |-> a + b]
    ELSE IF checks THEN [ok |-> FALSE, v |-> 0]
    ELSE [ok |-> TRUE, v |-> (a + b) % U16]

\* `x + self.area.x + self.offset.0`, evaluated from the left.
PaintSum(a, b, c, checks) ==
    LET s == AddU16(a, b, checks)
    IN  IF s.ok THEN AddU16(s.v, c, checks) ELSE s

\* canvas.rs: `if use_offset_command { (0, 0) } else { offset }`.
CoordOffset(g) == IF g.use_offset_command THEN <<0, 0>> ELSE g.offset

InitCoordIdle ==
    /\ geometry = [w |-> 0, h |-> 0, count |-> 0, offset |-> <<0, 0>>,
                   use_offset_command |-> FALSE, overflow_checks |-> FALSE]
    /\ paintCall = NoPaint
    /\ paintResult = "ok"
    /\ paintOut = NoCoord

\* Canvas::new has been called with a size, a count and an offset that the
\* command line accepts: any u16 (args.rs), nothing is validated.
InitCoord ==
    /\ geometry \in Geometries
    /\ paintCall = NoPaint
    /\ paintResult = "ok"
    /\ paintOut = NoCoord

\* A painter evaluates the two arguments of a send_pixel call for a pixel
\* (x, y) of its slice; the first and the last column and row stand for the
\* others. A panic ends the thread.
PaintCoordinate ==
    /\ paintResult # "panic"
    /\ \E i \in 0..(geometry.count - 1) :
        LET a == PainterArea(i, geometry.w, geometry.h, geometry.count)
            off == CoordOffset(geometry)
        IN  \E px \in {0, a.w - 1} \cap (0..(a.w - 1)),
               py \in {0, a.h - 1} \cap (0..(a.h - 1)) :
              LET sx == PaintSum(px, a.x, off[1], geometry.overflow_checks)
                  sy == PaintSum(py, a.y, off[2], geometry.overflow_checks)
              IN  /\ paintCall' = [area |-> a, offset |-> off, x |-> px, y |-> py]
                  /\ paintResult' = IF sx.ok /\ sy.ok THEN "ok" ELSE "panic"
                  /\ paintOut' = IF sx.ok /\ sy.ok THEN <<sx.v, sy.v>> ELSE NoCoord
    /\ UNCHANGED <<geometry, hexVars, sliceVars, painterVars, tcpVars, icmpVars,
                   pxVars, startVars, fanVars>>

\* C34: for every draw size and draw offset the coordinate a painter passes
\* to send_pixel is the sum x + slice.x + offset.x, y + slice.y + offset.y
\* of the integers: the 16-bit additions neither wrap around nor panic.
C34_CoordinateIsTheSum ==
    paintCall # NoPaint =>
        /\ paintResult = "ok"
        /\ paintOut = <<paintCall.x + paintCall.area.x + paintCall.offset[1],
                        paintCall.y + paintCall.area.y + paintCall.offset[2]>>

HexInit == InitHex /\ InitSlicesIdle /\ InitPainterIdle /\ InitTcpIdle /\ InitIcmpIdle
    /\ InitPxIdle /\ InitStartIdle /\ InitFanIdle /\ InitCoordIdle
SpecHex == HexInit /\ [][WriteHex]_vars

SlicesInit == InitSlices /\ InitHexIdle /\ InitPainterIdle /\ InitTcpIdle /\ InitIcmpIdle
    /\ InitPxIdle /\ InitStartIdle /\ InitFanIdle /\ InitCoordIdle
SpecSlices == SlicesInit /\ [][SpawnPainter]_vars

TcpInit == InitTcp /\ InitHexIdle /\ InitSlicesIdle /\ InitPainterIdle /\ InitIcmpIdle
    /\ InitPxIdle /\ InitStartIdle /\ InitFanIdle /\ InitCoordIdle
SpecTcp == TcpInit /\ [][NextTcp]_vars

IcmpInit ==
    InitIcmp /\ InitHexIdle /\ InitSlicesIdle /\ InitPainterIdle /\ InitTcpIdle
    /\ InitPxIdle /\ InitStartIdle /\ InitFanIdle /\ InitCoordIdle

PxInit ==
    InitPx /\ InitHexIdle /\ InitSlicesIdle /\ InitPainterIdle /\ InitTcpIdle
    /\ InitIcmpIdle /\ InitStartIdle /\ InitFanIdle /\ InitCoordIdle
SpecPx == PxInit /\ [][WritePixelNoformat]_vars

StartInit ==
    InitStart /\ InitHexIdle /\ InitSlicesIdle /\ InitPainterIdle /\ InitTcpIdle
    /\ InitIcmpIdle /\ InitPxIdle /\ InitFanIdle /\ InitCoordIdle
SpecStart == StartInit /\ [][NextStart]_vars

SpecIcmp == IcmpInit /\ [][NextIcmp]_vars

CanvasInit ==
    InitFan /\ InitHexIdle /\ InitSlicesIdle /\ InitPainterIdle /\ InitTcpIdle
    /\ InitIcmpIdle /\ InitPxIdle /\ InitStartIdle /\ InitCoordIdle
SpecCanvas == CanvasInit /\ [][NextCanvas]_vars

CoordInit ==
    InitCoord /\ InitHexIdle /\ InitSlicesIdle /\ InitPainterIdle /\ InitTcpIdle
    /\ InitIcmpIdle /\ InitPxIdle /\ InitStartIdle /\ InitFanIdle
SpecCoord == CoordInit /\ [][PaintCoordinate]_vars

Init == InitPainter /\ InitHexIdle /\ InitSlicesIdle /\ InitTcpIdle /\ InitIcmpIdle
    /\ InitPxIdle /\ InitStartIdle /\ InitFanIdle /\ InitCoordIdle
Spec == Init /\ [][Next]_vars

\* The painter thread is an OS thread that runs whenever it can.
PainterFairSpec == Spec /\ WF_vars(PainterStep)

\* Beside it, ImageManager::work calls tick forever, and a running
\* pipeline keeps delivering samples.
FairSpec == PainterFairSpec /\ WF_vars(Tick) /\ WF_vars(NewSample)

=============================================================================
